---- MODULE Spec2Model ----
(***************************************************************************)
(* Verification model of the quadstorm flight-control core:                *)
(*   - the LSM6DS3 FIFO reader (esp/drone/src/esp_ikarus/lsm6ds3.rs)        *)
(*   - the BMI323 FIFO reader  (esp-ikarus/src/bmi323.rs)                   *)
(*   - the boot sequence, the sample channel and the control loop          *)
(*     (drone/src/main.rs)                                                 *)
(* A hardware FIFO word is modelled by its index in the sensor's word      *)
(* stream: word g belongs to sample g \div 9 and is word g % 9 of it.      *)
(***************************************************************************)
EXTENDS Integers, Naturals, Sequences, FiniteSets, TLC

VARIABLES
    \* ---- LSM6DS3 reader (read_imu_task) ----
    buf,            \* the 256 byte buffer: its leading words (the rest is still zero)
    leftover_len,   \* bytes of the partial sample kept from the last poll
    hwPos,          \* stream index of the next word the hardware FIFO outputs
    pollCount,      \* polls done so far
    lastPoll,       \* what the last poll saw and did
    pollOut,        \* the SampleEvents the last poll sent, in order
    clean,          \* no overrun so far and every read advanced the FIFO by the words read
    \* ---- BMI323 reader (read_imu_task) ----
    bmiBuf,         \* the BYTES_PER_SAMPLE * 64 byte buffer: its leading words
    bmiPos,         \* stream index of the next word of the BMI323 FIFO
    bmiCount,       \* polls done so far
    bmiLast,        \* what the last poll saw
    bmiOut,         \* the samples the last poll sent, in order
    \* ---- drone main: boot, sample channel, control loop ----
    pcMain,         \* position of main()
    pcImu,          \* position of the IMU task ("off" until spawned)
    confResult,     \* what imu.configure() returned ("none" before the call)
    errorLogged,    \* error!() of the configuration error was executed
    panicked,       \* panic!() / todo!() was executed
    imuSpawned,     \* spawner.must_spawn(read_imu(..)) was executed
    armed,          \* motors.arm_oneshot() has returned
    throttleKinds,  \* kinds of throttle arrays sent to the motors since boot
    now,            \* embassy_time::Instant::now(), in seconds since boot
    armEnd,         \* `end` of arm_oneshot
    motorsOffUntil, \* motors_off_until of main
    chanBuf,        \* the channel's slots (0: never written)
    front,          \* zerocopy channel: index of the oldest unconsumed slot
    back,           \* zerocopy channel: index of the next slot to write
    full,           \* zerocopy channel: every slot holds an unconsumed sample
    produced,       \* samples the IMU task has decoded and sent
    sentLog,        \* the samples written by the IMU task, in order
    recvLog,        \* the samples read by the control loop, in order
    nSendDone,      \* calls of send_done
    nReceive,       \* samples obtained from receive().await
    nReceiveDone,   \* calls of receive_done
    response,       \* the response sent in the current cycle ("none" if none)
    armSent,        \* the throttle arrays arm_oneshot has sent, one per phase
    demand,         \* [roll, pitch, yaw] returned by fusion.advance in this cycle
    lastSent,       \* the last array passed to send_throttles, and by which code
    request,        \* the request try_receive returned in this cycle ("None" if none)
    cycle,          \* the requests taken and the responses sent in this cycle
    \* ---- the mixer of the control loop, as a function of its inputs ----
    mixIn,          \* [thrust, roll, pitch, yaw]
    mixOut,         \* motor_throttles and mapped_motor_throttles (<<>> before)
    \* ---- read_queue and the chunking of read_imu_task (LSM6DS3) ----
    queueIn,        \* [pattern, unread_words] of the status
    queueOut,       \* the end index, the bytes outside whole words, the new leftover_len
    \* ---- DShot::encode_frame ----
    dshotIn,        \* [value, telemetry_request]
    dshotOut,       \* the packet, the frame and the pulses (<<>> before)
    \* ---- OneShot::throttle_transform and encode_oneshot_pulse ----
    oneshotIn,      \* throttle
    oneshotOut,     \* the transformed value and its pulses (<<>> before)
    \* ---- Motors<Proto> (motors/rmt.rs, drone/src/motors.rs) ----
    escProto,       \* Proto: "OneShot" or "DShot"
    escPc,          \* "idle", or "arm" while arm_dshot runs
    escPhase,       \* the phase of arm_dshot that runs (1..3)
    escNow,         \* Instant::now(), in milliseconds
    escEnd,         \* `end` of the current phase of arm_dshot
    escArmed,       \* arm_dshot has returned
    escMux,         \* the levels of mux_slct[0] and mux_slct[1]
    escPanic,       \* the assert of encode_frame has failed
    escLast,        \* the last call of send_esc_values: what it was given and did
    \* ---- read_imu_task with failing bus transactions ----
    rdChip,         \* the driver whose read_imu_task runs
    rdPc,           \* "wait" (for the data-ready interrupt) or "loop"
    rdLast,         \* how the last pass of the loop ended
    rdErrors,       \* bus errors so far
    \* ---- ComplementaryFilterFusion and its three Pid ----
    fusion,         \* the object: alpha, orientation, target, pid
    fusCalls,       \* calls of advance so far
    errLog,         \* the errors given to the three Pid, one triple per call of advance
    fusLast,        \* the last operation: its sample, the orientation before, the controls
    \* ---- Frame and FrameStreamDecoder ----
    frameIn,        \* the bytes given to escaped, and the library's choice
    frameOut,       \* <<>>, or the one result of the round trip
    decBuf,         \* buffer[..len]
    decPending,     \* the bytes that have not arrived yet
    decSent,        \* the messages whose frames were sent
    decOut,         \* the messages next has returned
    decFrames,      \* TRUE: the bytes are frames of messages; FALSE: any bytes
    decTrailing,    \* whether deserialize accepts bytes after a message
    decLast,        \* the last call: its result, and the bytes it discarded
    \* ---- the remote's side of remote_reqests ----
    remotePending,  \* the request waiting in the channel, "None", or "Any" (not tracked)
    \* ---- the motor test program (esp-ikarus/src/bin/main.rs) ----
    benchPc,        \* "loop", or "arm" while arm_oneshot runs
    benchBuf,       \* buf: the 5 bytes of the serial input buffer
    benchLen,       \* len
    benchRamp,      \* ramp
    benchThrottle,  \* throttle
    benchFromInput, \* throttle was last assigned from a number of the serial input
    benchNow,       \* Instant::now(), in seconds since boot
    benchEnd,       \* `end` of the current phase of arm_oneshot
    benchPhase,     \* the phase of arm_oneshot that runs (1..3)
    benchArmed,     \* arm_oneshot has returned at least once since boot
    benchPhases,    \* the throttle arrays the last arm_oneshot sent, one per phase
    benchSent,      \* the last array passed to send_throttles, and by which code
    \* ---- configure() of the BMI323 and of the LSM6DS3 ----
    chip,           \* the driver whose configure() runs
    cfgPc,          \* index of the step of configure() that runs next
    cfgResult,      \* what configure() returned ("running" until it returns)
    cfgNow,         \* Instant::now(), in ticks
    cfgStart,       \* the Instant taken before the current wait loop
    cfgWrites,      \* register writes issued on the bus so far
    cfgBusError,    \* a bus transaction of this configure() has failed
    cfgLog,         \* the steps taken so far and what came of each
    cfgEvent        \* the last thing a step observed before it decided

lsmVars == <<buf, leftover_len, hwPos, pollCount, lastPoll, pollOut, clean>>
bmiVars == <<bmiBuf, bmiPos, bmiCount, bmiLast, bmiOut>>
bootVars == <<confResult, errorLogged, panicked, imuSpawned, armed, throttleKinds,
              now, armEnd, motorsOffUntil, response>>
chanVars == <<chanBuf, front, back, full, produced, sentLog, recvLog,
              nSendDone, nReceive, nReceiveDone>>
flightVars == <<armSent, demand, lastSent, request, cycle>>
droneVars == <<pcMain, pcImu, bootVars, chanVars, flightVars>>
cfgVars == <<chip, cfgPc, cfgResult, cfgNow, cfgStart, cfgWrites, cfgBusError, cfgEvent, cfgLog>>
mixVars == <<mixIn, mixOut>>
dshotVars == <<dshotIn, dshotOut>>
oneshotVars == <<oneshotIn, oneshotOut>>
queueVars == <<queueIn, queueOut>>
readerVars == <<rdChip, rdPc, rdLast, rdErrors>>
fusVars == <<fusion, fusCalls, errLog, fusLast>>
remoteVars == <<remotePending>>
frameVars == <<frameIn, frameOut, decBuf, decPending, decSent, decOut, decFrames, decTrailing,
               decLast>>
escVars == <<escProto, escPc, escPhase, escNow, escEnd, escArmed, escMux, escPanic, escLast>>
benchVars == <<benchPc, benchBuf, benchLen, benchRamp, benchThrottle, benchFromInput,
               benchNow, benchEnd, benchPhase, benchArmed, benchPhases, benchSent>>
vars == <<lsmVars, bmiVars, droneVars, cfgVars, mixVars, dshotVars, oneshotVars, benchVars,
          escVars, readerVars, fusVars, frameVars, remoteVars, queueVars>>

\* what the steps of one part of the program leave alone
pureVars == <<mixVars, dshotVars, oneshotVars, queueVars>>
nonLsmVars == <<bmiVars, droneVars, cfgVars, pureVars, benchVars, escVars, fusVars,
                 frameVars, remoteVars>>
nonBmiVars == <<lsmVars, droneVars, cfgVars, pureVars, benchVars, escVars, fusVars,
                 frameVars, remoteVars>>
nonCommandVars == <<lsmVars, bmiVars, cfgVars, pureVars, benchVars, escVars, readerVars, fusVars,
                 frameVars>>
nonDroneVars == <<nonCommandVars, remoteVars>>
nonCfgVars == <<lsmVars, bmiVars, droneVars, pureVars, benchVars, escVars, readerVars, fusVars,
                 frameVars, remoteVars>>
nonPureVars == <<lsmVars, bmiVars, droneVars, cfgVars, benchVars, escVars, readerVars, fusVars,
                 frameVars, remoteVars>>
nonEscVars == <<lsmVars, bmiVars, droneVars, cfgVars, pureVars, benchVars, readerVars, fusVars,
                 frameVars, remoteVars>>
nonReaderVars == <<droneVars, cfgVars, pureVars, benchVars, escVars, fusVars,
                 frameVars, remoteVars>>
nonFusVars == <<lsmVars, bmiVars, droneVars, cfgVars, pureVars, benchVars, escVars,
               readerVars, frameVars, remoteVars>>
nonFrameVars == <<lsmVars, bmiVars, droneVars, cfgVars, pureVars, benchVars, escVars,
                 readerVars, fusVars, remoteVars>>
nonBenchVars == <<lsmVars, bmiVars, droneVars, cfgVars, pureVars, escVars, readerVars, fusVars,
                 frameVars, remoteVars>>

Min(a, b) == IF a < b THEN a ELSE b
Max(a, b) == IF a > b THEN a ELSE b

\* a buffer word that holds no word of the hardware stream (the zeros the
\* buffer starts with, and what a read of the empty FIFO returns)
NoWord == -1

\* A byte buffer is kept as the sequence of its leading words; every word
\* behind the sequence is NoWord. BufAt(b, i) is word i (from 0) of the buffer.
BufAt(b, i) == IF i < Len(b) THEN b[i + 1] ELSE NoWord

(***************************************************************************)
(* Bounds of the model                                                     *)
(***************************************************************************)
MaxPolls == 2
MaxCleanPolls == 4
MaxUnread == 10
MaxSkip == 1
MaxSamples == 34
MaxTime == 6

(***************************************************************************)
(* LSM6DS3: constants                                                      *)
(***************************************************************************)
ENTRIES_PER_SAMPLE == 3
WORDS_PER_ENTRY == 3
BYTES_PER_WORD == 2
BUF_LEN == 256
PATTERNS == ENTRIES_PER_SAMPLE * WORDS_PER_ENTRY
BufWords == BUF_LEN \div BYTES_PER_WORD

\* fifo_status: the unread word counts the model lets the status report
UnreadChoices == 1..MaxUnread

\* variant with a seeded fault: the length is not limited to the buffer
ReadQueueEnd_unread(pattern, unread_words) ==
    LET len == unread_words * 2
        start == pattern * 2
    IN  start + len
\* read_queue: the end index (in bytes) of the slice handed to read_fifo
ReadQueueEnd(pattern, unread_words) ==
    LET len == Min(BUF_LEN - (pattern * 2), unread_words * 2)
        start == pattern * 2
    IN  start + len

\* variant with a seeded fault: leftover_len is compared in bytes
LagSkip_bytes(over_run, leftover, pattern) ==
    IF over_run \/ leftover # pattern
    THEN PATTERNS - pattern
    ELSE -1
\* variant with a seeded fault: lag only when both conditions hold
LagSkip_both(over_run, leftover, pattern) ==
    IF over_run /\ (leftover \div 2) # pattern
    THEN PATTERNS - pattern
    ELSE -1
\* lag: Some(PATTERNS - pattern) when lagged, None (here -1) otherwise
LagSkip(over_run, leftover, pattern) ==
    IF over_run \/ (leftover \div 2) # pattern
    THEN PATTERNS - pattern
    ELSE -1

\* read_fifo(&mut buf[..end]): the SPI read fills the slice from its index 0.
\* pos is the FIFO's next word, consumed the number of words the FIFO had.
ReadFifo(b, end, pos, consumed) ==
    [i \in 1..Max(end \div 2, Len(b)) |->
        IF i <= end \div 2
        THEN (IF i <= consumed THEN pos + (i - 1) ELSE NoWord)
        ELSE b[i]]

\* words.as_chunks::<9>(): the k-th whole sample of the first n words
RawSample(b, k) == [j \in 1..PATTERNS |-> BufAt(b, PATTERNS * (k - 1) + (j - 1))]

\* the for loop: one SampleEvent per whole sample, tagged by lag
Events(b, n, lag) ==
    [k \in 1..(n \div PATTERNS) |->
        [tag |-> IF lag # -1 THEN "Lagged" ELSE "Ok", words |-> RawSample(b, k)]]

\* buf.copy_within(raw_samples_bytes..(raw_samples_bytes + leftover_len), 0)
CopyWithin(b, from, count) ==
    [i \in 1..Len(b) |-> IF i <= count THEN BufAt(b, from + (i - 1)) ELSE b[i]]

NoPoll ==
    [over_run |-> FALSE, prev_over_run |-> FALSE, pattern |-> 0, unread |-> 0,
     leftover |-> 0, retained |-> <<>>, read |-> <<>>, end |-> 0, lag |-> -1]

LsmInit ==
    /\ buf = <<>>
    /\ leftover_len = 0
    /\ hwPos = 0
    /\ pollCount = 0
    /\ lastPoll = NoPoll
    /\ pollOut = <<>>
    /\ clean = TRUE

\* One iteration of the `while let Ok(FifoStatus {..})` loop of read_imu_task.
\* skip: words the FIFO dropped since the last read; over_run: the flag of
\* the status; all: the FIFO could deliver every word the SPI read clocked out.
Poll(skip, over_run, unread_words, all) ==
    LET pos == hwPos + skip
        pattern == pos % PATTERNS
        end == ReadQueueEnd(pattern, unread_words)
        n == end \div BYTES_PER_WORD
        consumed == IF all THEN n ELSE Min(unread_words, n)
        lag == LagSkip(over_run, leftover_len, pattern)
        b1 == ReadFifo(buf, end, pos, consumed)
        nSamples == n \div PATTERNS
        left == n % PATTERNS
    IN  /\ pattern < PATTERNS
        /\ end <= BUF_LEN
        /\ end % BYTES_PER_WORD = 0
        /\ pollOut' = Events(b1, n, lag)
        /\ leftover_len' = left * BYTES_PER_WORD
        /\ buf' = CopyWithin(b1, nSamples * PATTERNS, left)
        /\ hwPos' = pos + consumed
        /\ pollCount' = pollCount + 1
        /\ lastPoll' = [over_run |-> over_run,
                        prev_over_run |-> lastPoll.over_run,
                        pattern |-> pattern,
                        unread |-> unread_words,
                        leftover |-> leftover_len,
                        retained |-> [j \in 1..(leftover_len \div 2) |-> BufAt(buf, j - 1)],
                        read |-> [j \in 1..n |-> BufAt(b1, j - 1)],
                        end |-> end,
                        lag |-> lag]
        /\ clean' = (clean /\ ~over_run /\ skip = 0 /\ consumed = n)
        /\ UNCHANGED nonLsmVars

\* the read clocks out more words than fifo_status reported when pattern > 0:
\* the FIFO then either had them by the time of the read, or it ran empty
ReadOutcomes(skip, unread_words) ==
    IF ReadQueueEnd((hwPos + skip) % PATTERNS, unread_words) \div BYTES_PER_WORD > unread_words
    THEN BOOLEAN
    ELSE {TRUE}

LsmPoll ==
    /\ pollCount < MaxPolls
    /\ \E skip \in 0..MaxSkip, over_run \in BOOLEAN, unread_words \in UnreadChoices :
        \E all \in ReadOutcomes(skip, unread_words) :
            Poll(skip, over_run, unread_words, all)
    /\ UNCHANGED readerVars

\* A poll of a clean stream: nothing dropped, no overrun reported, and the
\* FIFO advances by exactly the words the read clocked out.
LsmPollClean ==
    /\ pollCount < MaxCleanPolls
    /\ \E unread_words \in UnreadChoices :
        Poll(0, FALSE, unread_words, TRUE)
    /\ UNCHANGED readerVars

\* fifo_status: unread_words is a 12-bit field (`buf[1] & 0x0f` is its high
\* byte)
UNREAD_WORDS_MAX == 4095

\* the statuses read_queue is computed for: every pattern that passes the
\* assertion `pattern < PATTERNS` and every unread_words the pattern
\* `1..` of the `while let` accepts
QueueInputs == [pattern : 0..(PATTERNS - 1), unread_words : 1..UNREAD_WORDS_MAX]

\* buf[0..end].as_chunks::<BYTES_PER_WORD>(): the bytes after the last
\* whole word
ChunkLeftover(end) == end % BYTES_PER_WORD

\* words.as_chunks::<9>() and `leftover_len = leftover.as_flattened().len()`
LeftoverLen(end) == ((end \div BYTES_PER_WORD) % PATTERNS) * BYTES_PER_WORD

QueueIdle ==
    /\ queueIn = [pattern |-> 0, unread_words |-> 1]
    /\ queueOut = <<>>

QueueInit ==
    /\ queueIn \in QueueInputs
    /\ queueOut = <<>>

\* read_queue, the two as_chunks and the new leftover_len of one pass of the
\* loop, for the status queueIn
ReadQueue ==
    /\ queueOut = <<>>
    /\ LET end == ReadQueueEnd(queueIn.pattern, queueIn.unread_words)
       IN  queueOut' = [end |-> end,
                        chunk_leftover |-> ChunkLeftover(end),
                        leftover_len |-> LeftoverLen(end)]
    /\ UNCHANGED <<queueIn, mixVars, dshotVars, oneshotVars>>
    /\ UNCHANGED nonPureVars

(***************************************************************************)
(* BMI323 reader                                                           *)
(***************************************************************************)
WORDS_PER_SAMPLE == 3 + 3 + 1
BYTES_PER_SAMPLE == WORDS_PER_SAMPLE * 2
BMI_BUF_LEN == BYTES_PER_SAMPLE * 64

BmiBufWords == BMI_BUF_LEN \div 2

\* read_fifo(&mut buf): the SPI read fills the whole buffer; the FIFO gives
\* the words it holds and dummy words after them
BmiReadFifo(pos, consumed) ==
    [i \in 1..consumed |-> pos + (i - 1)]

\* words.as_chunks::<WORDS_PER_SAMPLE>(): the k-th whole sample
BmiRawSample(b, k) ==
    [j \in 1..WORDS_PER_SAMPLE |-> BufAt(b, WORDS_PER_SAMPLE * (k - 1) + (j - 1))]

\* the for loop: Sample has no Ok/Lagged tag, every sample is sent plain
BmiEvents(b, len) ==
    [k \in 1..((len \div 2) \div WORDS_PER_SAMPLE) |->
        [tag |-> "Plain", words |-> BmiRawSample(b, k)]]

BmiInit ==
    /\ bmiBuf = <<>>
    /\ bmiPos = 0
    /\ bmiCount = 0
    /\ bmiLast = [fifo_full |-> FALSE, unread |-> 0, start |-> 0]
    /\ bmiOut = <<>>

\* One iteration of the `while let Ok(FifoStatus {..})` loop of the BMI323
\* read_imu_task. lost: words the FIFO dropped while it was full.
BmiPollStep(lost, fifo_full, unread_words) ==
    LET pos == bmiPos + lost
        len == Min(unread_words * 2, BMI_BUF_LEN)
        consumed == Min(unread_words, BmiBufWords)
        b1 == BmiReadFifo(pos, consumed)
    IN  /\ bmiCount < MaxPolls
        /\ len % 2 = 0
        /\ bmiBuf' = b1
        /\ bmiOut' = BmiEvents(b1, len)
        /\ bmiPos' = pos + consumed
        /\ bmiCount' = bmiCount + 1
        /\ bmiLast' = [fifo_full |-> fifo_full, unread |-> unread_words, start |-> pos]
        /\ UNCHANGED nonBmiVars

BmiPoll ==
    /\ \E lost \in 0..MaxSkip, fifo_full \in BOOLEAN, unread_words \in 1..MaxUnread :
        BmiPollStep(lost, fifo_full, unread_words)
    /\ UNCHANGED readerVars

(***************************************************************************)
(* drone main: boot sequence, sample channel, control loop                 *)
(***************************************************************************)
CHANNEL_SIZE == 32
ARM_SECS == 3
MOTORS_OFF_SECS == 2

\* f32 values: a finite number (the small integers of the model are exact),
\* NaN, +inf and -inf
Num(n) == [k |-> "num", v |-> n]
NaN == [k |-> "nan", v |-> 0]
PosInf == [k |-> "inf", v |-> 1]
NegInf == [k |-> "inf", v |-> -1]
FNeg(a) == IF a.k = "nan" THEN NaN ELSE [k |-> a.k, v |-> -a.v]
FAdd(a, b) ==
    IF a.k = "nan" \/ b.k = "nan" THEN NaN
    ELSE IF a.k = "inf" /\ b.k = "inf" THEN (IF a.v = b.v THEN a ELSE NaN)
    ELSE IF a.k = "inf" THEN a
    ELSE IF b.k = "inf" THEN b
    ELSE Num(a.v + b.v)
FSub(a, b) == FAdd(a, FNeg(b))
\* variant with a seeded fault: only the lower limit is applied
FClamp_floor(a, lo, hi) ==
    IF a.k = "nan" THEN NaN
    ELSE IF a.k = "inf" THEN (IF a.v > 0 THEN Num(hi) ELSE Num(lo))
    ELSE Num(Max(lo, a.v))
\* f32::clamp(lo, hi): NaN stays NaN
FClamp(a, lo, hi) ==
    IF a.k = "nan" THEN NaN
    ELSE IF a.k = "inf" THEN (IF a.v > 0 THEN Num(hi) ELSE Num(lo))
    ELSE Num(Max(lo, Min(hi, a.v)))
\* `t as u16`: truncating and saturating, NaN becomes 0
AsU16(a) ==
    IF a.k = "nan" THEN 0
    ELSE IF a.k = "inf" THEN (IF a.v > 0 THEN 65535 ELSE 0)
    ELSE Max(0, Min(65535, a.v))

\* `let thrust = 0.0`
thrust == Num(0)

\* variant with a seeded fault: no motor is reversed
MOTOR_REV_none == <<FALSE, FALSE, FALSE, FALSE>>
\* MOTOR_*_REV in the order of MOTOR_*_IDX (front left, front right, back
\* right, back left)
MOTOR_REV == <<FALSE, FALSE, FALSE, TRUE>>

\* motor_throttles: the four sums, each clamped to 0.0..=1000.0
MotorThrottles(t, roll, pitch, yaw) ==
    << FClamp(FSub(FAdd(FAdd(t, roll), pitch), yaw), 0, 1000),
       FClamp(FAdd(FAdd(FSub(t, roll), pitch), yaw), 0, 1000),
       FClamp(FSub(FSub(FSub(t, roll), pitch), yaw), 0, 1000),
       FClamp(FAdd(FSub(FAdd(t, roll), pitch), yaw), 0, 1000) >>

\* mapped_motor_throttles: reversal, `t + 1000.0`, `t as u16`
MappedMotorThrottles(mt) ==
    [i \in 1..4 |-> AsU16(FAdd(IF MOTOR_REV[i] THEN FNeg(mt[i]) ELSE mt[i], Num(1000)))]

\* the [roll, pitch, yaw] fusion.advance returns in the model: level and
\* still, tilted, and NaN roll and pitch (an accelerometer sample of zero
\* norm divides by zero)
Demands ==
    { <<Num(0), Num(0), Num(0)>>,
      <<Num(200), Num(-100), Num(50)>>,
      <<NaN, NaN, Num(0)>> }
NoDemand == <<>>

\* the requests try_receive can return (RemoteRequest), without payloads
RemoteRequests == {"Ping", "SetArm", "ArmConfirm", "SetThrust", "SetTarget", "SetTune"}

\* nothing taken from remote_reqests and nothing sent to drone_responses
NoCycle == [taken |-> <<>>, responses |-> <<>>]

\* variant with a seeded fault: every request is answered
ResponsesTo_all(req) ==
    IF req = "None" THEN <<>> ELSE <<"Pong">>
\* the responses the match on the request sends: a Pong for a Ping
ResponsesTo(req) ==
    IF req = "Ping" THEN <<"Pong">> ELSE <<>>

Scripted(v) == <<v, v, v, v>>
NothingSent == [kind |-> "none", demand |-> NoDemand, mixed |-> <<>>, values |-> <<>>]

\* variant with a seeded fault: the stabilisation window is not checked
InWindow_never(t, until) == FALSE
\* `embassy_time::Instant::now() < motors_off_until`
InWindow(t, until) == t < until

ConfigErrors ==
    {"Spi", "Verification", "InvalidChip", "Internal", "Init", "Timeout",
     "SelfTest", "SelfCalibration"}
ConfigResults == {"Ok"} \cup ConfigErrors

\* variant with a seeded fault: the result of configure() is ignored
AfterConfigure_ignored(result) == "spawn"
\* `if let Err(err) = imu.configure().await { error!(..); panic!(..) }`
AfterConfigure(result) == IF result = "Ok" THEN "spawn" ELSE "log_error"

\* zerocopy channel: the index after i
Increment(i) == (i + 1) % CHANNEL_SIZE
\* variant with a seeded fault: send() never waits
SendReady_nowait(isFull) == TRUE
\* zerocopy channel: send() resolves when the channel is not full
SendReady(isFull) == ~isFull
\* zerocopy channel: receive() resolves when the channel is not empty
ReceiveReady(f, b, isFull) == ~(f = b /\ ~isFull)
\* variant with a seeded fault: send_done never marks the channel full
FullAfterPush_never(f, b) == FALSE
\* zerocopy channel, send_done: `full` after back was advanced to b
FullAfterPush(f, b) == (b = f)
\* variant with a seeded fault: receive_done releases two slots
FrontAfterPop_two(f) == (f + 2) % CHANNEL_SIZE
\* zerocopy channel, receive_done: the front after a slot was released
FrontAfterPop(f) == Increment(f)

\* the state main starts in
DroneBoot ==
    /\ pcMain = "configure"
    /\ pcImu = "off"
    /\ confResult = "none"
    /\ errorLogged = FALSE
    /\ panicked = FALSE
    /\ imuSpawned = FALSE
    /\ armed = FALSE
    /\ throttleKinds = {}
    /\ now = 0
    /\ armEnd = 0
    /\ motorsOffUntil = 0
    /\ response = "none"
    /\ armSent = <<>>
    /\ demand = NoDemand
    /\ lastSent = NothingSent
    /\ request = "None"
    /\ cycle = NoCycle
    /\ chanBuf = [i \in 0..(CHANNEL_SIZE - 1) |-> 0]
    /\ front = 0
    /\ back = 0
    /\ full = FALSE
    /\ produced = 0
    /\ sentLog = <<>>
    /\ recvLog = <<>>
    /\ nSendDone = 0
    /\ nReceive = 0
    /\ nReceiveDone = 0

\* main, with a remote whose requests may come at any time
DroneInit == DroneBoot /\ remotePending = "Any"

\* main, with no request waiting yet
RemoteInit == DroneBoot /\ remotePending = "None"

\* imu.configure().await: the result depends on the chip
MainConfigure ==
    /\ pcMain = "configure"
    /\ \E result \in ConfigResults :
        /\ confResult' = result
        /\ pcMain' = AfterConfigure(result)
    /\ UNCHANGED <<pcImu, errorLogged, panicked, imuSpawned, armed, throttleKinds,
                   now, armEnd, motorsOffUntil, response, chanVars>>
    /\ UNCHANGED flightVars
    /\ UNCHANGED nonDroneVars

\* error!("{}", format!("{err}"))
MainLogError ==
    /\ pcMain = "log_error"
    /\ errorLogged' = TRUE
    /\ pcMain' = "panic"
    /\ UNCHANGED <<pcImu, confResult, panicked, imuSpawned, armed, throttleKinds,
                   now, armEnd, motorsOffUntil, response, chanVars>>
    /\ UNCHANGED flightVars
    /\ UNCHANGED nonDroneVars

\* panic!("{}", err), and todo!() of the command match
MainPanic ==
    /\ pcMain = "panic"
    /\ panicked' = TRUE
    /\ pcMain' = "halt"
    /\ UNCHANGED <<pcImu, confResult, errorLogged, imuSpawned, armed, throttleKinds,
                   now, armEnd, motorsOffUntil, response, chanVars>>
    /\ UNCHANGED flightVars
    /\ UNCHANGED nonDroneVars

\* custom_halt: software_reset() restarts the program from boot
CustomHalt ==
    /\ pcMain = "halt"
    /\ pcMain' = "configure"
    /\ pcImu' = "off"
    /\ confResult' = "none"
    /\ errorLogged' = FALSE
    /\ panicked' = FALSE
    /\ imuSpawned' = FALSE
    /\ armed' = FALSE
    /\ throttleKinds' = {}
    /\ now' = 0
    /\ armEnd' = 0
    /\ motorsOffUntil' = 0
    /\ response' = "none"
    /\ armSent' = <<>>
    /\ demand' = NoDemand
    /\ lastSent' = NothingSent
    /\ request' = "None"
    /\ cycle' = NoCycle
    /\ chanBuf' = [i \in 0..(CHANNEL_SIZE - 1) |-> 0]
    /\ front' = 0
    /\ back' = 0
    /\ full' = FALSE
    /\ produced' = 0
    /\ sentLog' = <<>>
    /\ recvLog' = <<>>
    /\ nSendDone' = 0
    /\ nReceive' = 0
    /\ nReceiveDone' = 0
    /\ UNCHANGED nonDroneVars

\* spsc_channel!(bmi323::Sample, 32).split(); spawner.must_spawn(read_imu(..))
MainSpawn ==
    /\ pcMain = "spawn"
    /\ imuSpawned' = TRUE
    /\ pcImu' = "send"
    /\ pcMain' = "arm_start"
    /\ UNCHANGED <<confResult, errorLogged, panicked, armed, throttleKinds,
                   now, armEnd, motorsOffUntil, response, chanVars>>
    /\ UNCHANGED flightVars
    /\ UNCHANGED nonDroneVars

\* Motors::oneshot125(..); arm_oneshot: `let end = now + 3 s`
MainArmStart ==
    /\ pcMain = "arm_start"
    /\ armEnd' = now + ARM_SECS
    /\ pcMain' = "arm"
    /\ UNCHANGED <<pcImu, confResult, errorLogged, panicked, imuSpawned, armed,
                   throttleKinds, now, motorsOffUntil, response, chanVars>>
    /\ UNCHANGED flightVars
    /\ UNCHANGED nonDroneVars

\* arm_oneshot: `while Instant::now() <= end { send_throttles([1000; 4]) }`
MainArmLoop ==
    /\ pcMain = "arm"
    /\ IF now <= armEnd
       THEN /\ throttleKinds' = throttleKinds \cup {"arm"}
            /\ armSent' = IF armSent # <<>> /\ armSent[Len(armSent)] = Scripted(1000)
                          THEN armSent
                          ELSE Append(armSent, Scripted(1000))
            /\ lastSent' = [kind |-> "arm", demand |-> NoDemand, mixed |-> <<>>,
                            values |-> Scripted(1000)]
            /\ UNCHANGED <<pcMain, armed>>
       ELSE /\ armed' = TRUE
            /\ pcMain' = "flight_init"
            /\ UNCHANGED <<throttleKinds, armSent, lastSent>>
    /\ UNCHANGED <<pcImu, confResult, errorLogged, panicked, imuSpawned,
                   now, armEnd, motorsOffUntil, response, chanVars>>
    /\ UNCHANGED <<demand, request, cycle>>
    /\ UNCHANGED nonDroneVars

\* ComplementaryFilterFusion::new(..); motors_off_until = now + 2 s
MainFlightInit ==
    /\ pcMain = "flight_init"
    /\ motorsOffUntil' = now + MOTORS_OFF_SECS
    /\ pcMain' = "receive"
    /\ UNCHANGED <<pcImu, confResult, errorLogged, panicked, imuSpawned, armed,
                   throttleKinds, now, armEnd, response, chanVars>>
    /\ UNCHANGED flightVars
    /\ UNCHANGED nonDroneVars

\* imu_data.receive().await; debug!(..); fusion.advance(*imu_sample)
MainReceive ==
    /\ pcMain = "receive"
    /\ ReceiveReady(front, back, full)
    /\ nReceive' = nReceive + 1
    /\ recvLog' = Append(recvLog, chanBuf[front])
    /\ response' = "none"
    /\ request' = "None"
    /\ cycle' = NoCycle
    /\ \E d \in Demands : demand' = d
    /\ pcMain' = "receive_done"
    /\ UNCHANGED <<pcImu, confResult, errorLogged, panicked, imuSpawned, armed,
                   throttleKinds, now, armEnd, motorsOffUntil,
                   chanBuf, front, back, full, produced, sentLog, nSendDone, nReceiveDone>>
    /\ UNCHANGED <<armSent, lastSent>>
    /\ UNCHANGED nonDroneVars

\* imu_data.receive_done()
MainReceiveDone ==
    /\ pcMain = "receive_done"
    /\ front' = FrontAfterPop(front)
    /\ full' = FALSE
    /\ nReceiveDone' = nReceiveDone + 1
    /\ pcMain' = "send_throttles"
    /\ UNCHANGED <<pcImu, bootVars, chanBuf, back, produced, sentLog, recvLog,
                   nSendDone, nReceive>>
    /\ UNCHANGED flightVars
    /\ UNCHANGED nonDroneVars

\* the mixer, then send_throttles([1000; 4]) inside the stabilisation window
\* and send_throttles(mapped_motor_throttles) after it
MainSendThrottles ==
    /\ pcMain = "send_throttles"
    /\ LET motor_throttles == MotorThrottles(thrust, demand[1], demand[2], demand[3])
           mapped_motor_throttles == MappedMotorThrottles(motor_throttles)
           off == InWindow(now, motorsOffUntil)
       IN  /\ throttleKinds' = throttleKinds \cup {IF off THEN "off" ELSE "mixed"}
           /\ lastSent' = [kind |-> IF off THEN "off" ELSE "mixed",
                           demand |-> demand,
                           mixed |-> motor_throttles,
                           values |-> IF off THEN Scripted(1000) ELSE mapped_motor_throttles]
    /\ demand' = NoDemand
    /\ pcMain' = "command"
    /\ UNCHANGED <<pcImu, confResult, errorLogged, panicked, imuSpawned, armed,
                   now, armEnd, motorsOffUntil, response, chanVars>>
    /\ UNCHANGED <<armSent, request, cycle>>
    /\ UNCHANGED nonDroneVars

\* remote_reqests.try_receive(): nothing, a Ping, or another request (todo!())
MainCommand ==
    /\ pcMain = "command"
    /\ \E req \in (IF remotePending = "Any" THEN {"None"} \cup RemoteRequests
                   ELSE {remotePending}) :
        /\ request' = req
        /\ response' = IF req = "Ping" THEN "Pong" ELSE response
        /\ cycle' = [taken |-> cycle.taken \o (IF req = "None" THEN <<>> ELSE <<req>>),
                     responses |-> cycle.responses \o ResponsesTo(req)]
        /\ pcMain' = IF req \in {"None", "Ping"} THEN "receive" ELSE "panic"
    /\ UNCHANGED <<pcImu, confResult, errorLogged, panicked, imuSpawned, armed,
                   throttleKinds, now, armEnd, motorsOffUntil, chanVars>>
    /\ remotePending' = IF remotePending = "Any" THEN "Any" ELSE "None"
    /\ UNCHANGED <<armSent, demand, lastSent>>
    /\ UNCHANGED nonCommandVars

\* the remote puts a request into remote_reqests
RemoteSend ==
    /\ remotePending = "None"
    /\ remotePending' \in RemoteRequests
    /\ UNCHANGED <<droneVars, nonCommandVars>>

\* read_imu_task: `*tx.send().await = sample`
ImuSend ==
    /\ pcImu = "send"
    /\ produced < MaxSamples
    /\ SendReady(full)
    /\ chanBuf' = [chanBuf EXCEPT ![back] = produced + 1]
    /\ sentLog' = Append(sentLog, produced + 1)
    /\ produced' = produced + 1
    /\ pcImu' = "send_done"
    /\ UNCHANGED <<pcMain, bootVars, front, back, full, recvLog,
                   nSendDone, nReceive, nReceiveDone>>
    /\ UNCHANGED flightVars
    /\ UNCHANGED nonDroneVars

\* read_imu_task: tx.send_done()
ImuSendDone ==
    /\ pcImu = "send_done"
    /\ back' = Increment(back)
    /\ full' = FullAfterPush(front, Increment(back))
    /\ nSendDone' = nSendDone + 1
    /\ pcImu' = "send"
    /\ UNCHANGED <<pcMain, bootVars, chanBuf, front, produced, sentLog, recvLog,
                   nReceive, nReceiveDone>>
    /\ UNCHANGED flightVars
    /\ UNCHANGED nonDroneVars

\* the clock advances while the tasks run and wait
Tick ==
    /\ now < MaxTime
    /\ now' = now + 1
    /\ UNCHANGED <<pcMain, pcImu, confResult, errorLogged, panicked, imuSpawned, armed,
                   throttleKinds, armEnd, motorsOffUntil, response, chanVars>>
    /\ UNCHANGED flightVars
    /\ UNCHANGED nonDroneVars

(***************************************************************************)
(* configure(): the BMI323 (esp-ikarus/src/bmi323.rs) and the LSM6DS3       *)
(* (esp/drone/src/esp_ikarus/lsm6ds3.rs)                                   *)
(***************************************************************************)
MaxCfgTime == 6
TicksPerSec == 2

Chips == {"BMI323", "LSM6DS3"}

\* x >> n, and x & (2^n - 1), on unsigned integers
Shr(x, n) == x \div (2 ^ n)
LowBits(x, n) == x % (2 ^ n)

\* Duration::as_secs(): whole seconds of a duration in ticks
AsSecs(d) == d \div TicksPerSec

Step(op, reg, val) == [op |-> op, reg |-> reg, val |-> val]

\* BMI323::configure with self_test_and_calibration inlined: its bus
\* transactions and wait loops in program order
BmiPlan ==
    << Step("read", "CHIP_ID", 0),
       Step("chip_id", "CHIP_ID", 67),
       Step("write", "CMD", 57007),
       Step("power_up", "STATUS", 0),
       Step("read", "CHIP_ID", 0),
       Step("error", "ERROR", 0),
       Step("write_verify", "ACC_CONF", 28681),
       Step("write_verify", "GYR_CONF", 28681),
       Step("write_verify", "FEATURE_CTRL", 1),
       Step("ready", "FEATURE_IO1", 0),
       Step("write", "CMD", 256),
       Step("self_test", "FEATURE_IO1", 0),
       Step("ready", "FEATURE_IO1", 0),
       Step("write", "CMD", 257),
       Step("write", "CMD", 257),
       Step("calibration", "FEATURE_IO1", 0),
       Step("write_verify", "FEATURE_CTRL", 0),
       Step("write_verify", "FIFO_WATERMARK", 28),
       Step("write_verify", "FIFO_CONF", 1792),
       Step("write_verify", "IO_INT_CTRL", 1799),
       Step("write_verify", "INT_MAP2", 36864),
       Step("write_verify", "ACC_CONF", 28715),
       Step("write_verify", "GYR_CONF", 28747),
       Step("error", "ERROR", 0) >>

\* LSM6DS3::configure: its bus transactions and wait loop in program order
LsmPlan ==
    << Step("who_am_i", "WHO_AM_I", 105),
       Step("write", "CTRL2_G", 0),
       Step("write", "CTRL6_C", 0),
       Step("write", "CTRL3_C", 1),
       Step("reset_wait", "CTRL3_C", 4),
       Step("write_verify", "CTRL3_C", 68),
       Step("write_verify", "CTRL1_XL", 140),
       Step("write_verify", "CTRL2_G", 136),
       Step("write_verify", "CTRL4_C", 148),
       Step("write_verify", "CTRL5_C", 192),
       Step("write_verify", "CTRL9_XL", 56),
       Step("write_verify", "CTRL10_C", 56),
       Step("write_verify", "FIFO_CTRL1", 36),
       Step("write_verify", "FIFO_CTRL2", 0),
       Step("write_verify", "FIFO_CTRL3", 9),
       Step("write_verify", "FIFO_CTRL4", 8),
       Step("write_verify", "FIFO_CTRL5", 70),
       Step("write_verify", "INT1_CTRL", 8),
       Step("write_verify", "INT2_CTRL", 32) >>

Plan == IF chip = "BMI323" THEN BmiPlan ELSE LsmPlan

\* the values a register read can return in the model
ChipIdValues == {67, 323, 68}
WhoAmIValues == {105, 106}
StatusValues == {0, 1, 33}
ErrorValues == {0, 1}
FeatureIo1Values == {0, 5, 19, 21, 2048, 2069}
Ctrl3Values == {4, 5}
ReadBack(val) == {val, (val + 1) % 65536}

\* Result<(), ConfigurationError>; inner is the CheckedWriteError of a
\* Verification, code the value an Internal, SelfTest or SelfCalibration carries
Res(kind, inner, code) == [kind |-> kind, inner |-> inner, code |-> code]
Running == Res("running", "none", -1)
CfgOk == Res("Ok", "none", -1)
ErrSpi == Res("Spi", "none", -1)
ErrTimeout == Res("Timeout", "none", -1)

NoEvent == [what |-> "none", op |-> "none", raw |-> -1, writes |-> 0]
Event(what, raw, writes) ==
    [what |-> what, op |-> Plan[cfgPc].op, raw |-> raw, writes |-> writes]

\* variant with a seeded fault: the read-back value is not compared
WriteVerifyRegister_unchecked(wOk, rOk, val, r) ==
    IF ~wOk THEN "Spi"
    ELSE IF ~rOk THEN "Spi"
    ELSE "Ok"
\* write_verify_register: Ok, or the CheckedWriteError it returns
WriteVerifyRegister(wOk, rOk, val, r) ==
    IF ~wOk THEN "Spi"
    ELSE IF ~rOk THEN "Spi"
    ELSE IF val # r THEN "Verification"
    ELSE "Ok"

\* `status & 0b11100001 == 0b00000001`
PowerUpReady(status) == status % 2 = 1 /\ Shr(status, 5) % 8 = 0
\* `(status >> STATUS_SHIFT) & STATUS_MASK == 0`
FeatureReady(status) == LowBits(Shr(status, 11), 2) = 0

\* variant with a seeded fault: a timeout returns the status read last
TestOutcome_status(errKind, res, elapsed) ==
    IF Shr(res, 4) % 2 > 0
    THEN (IF LowBits(res, 4) = 5 THEN CfgOk
          ELSE Res(errKind, "none", LowBits(res, 4) % 256))
    ELSE IF AsSecs(elapsed) > 1 THEN Res(errKind, "none", LowBits(res, 4) % 256)
    ELSE Running
\* one pass of the self-test (self-calibration) loop after FEATURE_IO1 was
\* read as res: CfgOk for `break`, Running for another pass, or the error
TestOutcome(errKind, res, elapsed) ==
    IF Shr(res, 4) % 2 > 0
    THEN (IF LowBits(res, 4) = 5 THEN CfgOk
          ELSE Res(errKind, "none", LowBits(res, 4) % 256))
    ELSE IF AsSecs(elapsed) > 1 THEN ErrTimeout
    ELSE Running

CfgStartOf(c) ==
    /\ chip = c
    /\ cfgPc = 1
    /\ cfgResult = Running
    /\ cfgNow = 0
    /\ cfgStart = 0
    /\ cfgWrites = 0
    /\ cfgBusError = FALSE
    /\ cfgEvent = NoEvent
    /\ cfgLog = <<>>

CfgInit == \E c \in Chips : CfgStartOf(c)

AtStep(op) ==
    /\ cfgResult = Running
    /\ cfgPc <= Len(Plan)
    /\ Plan[cfgPc].op = op

\* the step is done: the next one starts (a wait loop takes its Instant)
CfgAdvance ==
    /\ cfgPc' = cfgPc + 1
    /\ cfgStart' = cfgNow
    /\ cfgResult' = Running

\* variant with a seeded fault: configure() goes on after a failure
CfgReturn_continue(r) ==
    /\ cfgPc' = cfgPc + 1
    /\ cfgStart' = cfgNow
    /\ cfgResult' = Running
\* configure() returns r
CfgReturn(r) ==
    /\ cfgResult' = r
    /\ UNCHANGED <<cfgPc, cfgStart>>

\* the wait loop goes round once more
CfgAgain == UNCHANGED <<cfgPc, cfgStart, cfgResult>>

\* the steps configure() has taken, in order, each with what came of it; the
\* passes of a wait loop that ask for another pass are left out
CfgLogged ==
    cfgLog' = IF cfgPc' = cfgPc /\ cfgResult' = Running THEN cfgLog
              ELSE Append(cfgLog, [step |-> cfgPc, what |-> cfgEvent'.what,
                                   done |-> cfgResult' = Running])

\* `_ = self.read_register(CHIP_ID).await.map_err(ConfigurationError::Spi)?`
CfgRead ==
    /\ AtStep("read")
    /\ \E ok \in BOOLEAN :
        /\ cfgBusError' = (cfgBusError \/ ~ok)
        /\ cfgEvent' = Event(IF ok THEN "read" ELSE "bus_error", -1, cfgWrites)
        /\ IF ok THEN CfgAdvance ELSE CfgReturn(ErrSpi)
    /\ UNCHANGED <<chip, cfgNow, cfgWrites>>
    /\ CfgLogged
    /\ UNCHANGED nonCfgVars

\* `if CHIP_ID_VALID != 0x00ff & self.read_register(CHIP_ID)..? { return Err(InvalidChip) }`
CfgChipId ==
    /\ AtStep("chip_id")
    /\ \E ok \in BOOLEAN, id \in ChipIdValues :
        /\ cfgBusError' = (cfgBusError \/ ~ok)
        /\ cfgEvent' = Event(IF ok THEN "read" ELSE "bus_error", IF ok THEN id ELSE -1, cfgWrites)
        /\ IF ~ok THEN CfgReturn(ErrSpi)
           ELSE IF Plan[cfgPc].val # LowBits(id, 8) THEN CfgReturn(Res("InvalidChip", "none", -1))
           ELSE CfgAdvance
    /\ UNCHANGED <<chip, cfgNow, cfgWrites>>
    /\ CfgLogged
    /\ UNCHANGED nonCfgVars

\* `self.write_register(reg, val).await.map_err(ConfigurationError::Spi)?`
CfgWrite ==
    /\ AtStep("write")
    /\ \E ok \in BOOLEAN :
        /\ cfgBusError' = (cfgBusError \/ ~ok)
        /\ cfgEvent' = Event(IF ok THEN "write" ELSE "bus_error", -1, cfgWrites + 1)
        /\ IF ok THEN CfgAdvance ELSE CfgReturn(ErrSpi)
    /\ cfgWrites' = cfgWrites + 1
    /\ UNCHANGED <<chip, cfgNow>>
    /\ CfgLogged
    /\ UNCHANGED nonCfgVars

\* one pass of the `wait for power up` loop
CfgPowerUp ==
    /\ AtStep("power_up")
    /\ \E ok \in BOOLEAN, status \in StatusValues :
        /\ cfgBusError' = (cfgBusError \/ ~ok)
        /\ IF ~ok
           THEN /\ CfgReturn(ErrSpi)
                /\ cfgEvent' = Event("bus_error", -1, cfgWrites)
           ELSE IF PowerUpReady(status)
           THEN /\ CfgAdvance
                /\ cfgEvent' = Event("read", status, cfgWrites)
           ELSE IF AsSecs(cfgNow - cfgStart) > 1
           THEN /\ CfgReturn(ErrTimeout)
                /\ cfgEvent' = Event("timeout", status, cfgWrites)
           ELSE /\ CfgAgain
                /\ cfgEvent' = Event("wait", status, cfgWrites)
    /\ UNCHANGED <<chip, cfgNow, cfgWrites>>
    /\ CfgLogged
    /\ UNCHANGED nonCfgVars

\* `check error`: read ERROR, `if error != 0 { return Err(Internal(error)) }`
CfgCheckError ==
    /\ AtStep("error")
    /\ \E ok \in BOOLEAN, error \in ErrorValues :
        /\ cfgBusError' = (cfgBusError \/ ~ok)
        /\ cfgEvent' = Event(IF ok THEN "read" ELSE "bus_error", IF ok THEN error ELSE -1, cfgWrites)
        /\ IF ~ok THEN CfgReturn(ErrSpi)
           ELSE IF error # 0 THEN CfgReturn(Res("Internal", "none", error))
           ELSE CfgAdvance
    /\ UNCHANGED <<chip, cfgNow, cfgWrites>>
    /\ CfgLogged
    /\ UNCHANGED nonCfgVars

\* `self.write_verify_register(reg, val).await.map_err(ConfigurationError::Verification)?`
\* (both drivers)
CfgWriteVerify ==
    /\ AtStep("write_verify")
    /\ \E wOk \in BOOLEAN, rOk \in BOOLEAN, r \in ReadBack(Plan[cfgPc].val) :
        LET checked == WriteVerifyRegister(wOk, rOk, Plan[cfgPc].val, r)
            failed == ~wOk \/ ~rOk
        IN  /\ cfgBusError' = (cfgBusError \/ failed)
            /\ cfgEvent' = Event(IF failed THEN "bus_error"
                                 ELSE IF Plan[cfgPc].val # r THEN "mismatch"
                                 ELSE "verified",
                                 IF failed THEN -1 ELSE r, cfgWrites + 1)
            /\ IF checked = "Ok" THEN CfgAdvance
               ELSE CfgReturn(Res("Verification", checked, -1))
    /\ cfgWrites' = cfgWrites + 1
    /\ UNCHANGED <<chip, cfgNow>>
    /\ CfgLogged
    /\ UNCHANGED nonCfgVars

\* one pass of a `wait for ready to self-test / calibrate` loop (no time limit)
CfgWaitReady ==
    /\ AtStep("ready")
    /\ \E ok \in BOOLEAN, status \in FeatureIo1Values :
        /\ cfgBusError' = (cfgBusError \/ ~ok)
        /\ IF ~ok
           THEN /\ CfgReturn(ErrSpi)
                /\ cfgEvent' = Event("bus_error", -1, cfgWrites)
           ELSE IF FeatureReady(status)
           THEN /\ CfgAdvance
                /\ cfgEvent' = Event("read", status, cfgWrites)
           ELSE /\ CfgAgain
                /\ cfgEvent' = Event("wait", status, cfgWrites)
    /\ UNCHANGED <<chip, cfgNow, cfgWrites>>
    /\ CfgLogged
    /\ UNCHANGED nonCfgVars

\* one pass of the self-test loop (errKind SelfTest) or of the
\* self-calibration loop (errKind SelfCalibration)
CfgTestPass(op, errKind) ==
    /\ AtStep(op)
    /\ \E ok \in BOOLEAN, res \in FeatureIo1Values :
        LET out == TestOutcome(errKind, res, cfgNow - cfgStart) IN
        /\ cfgBusError' = (cfgBusError \/ ~ok)
        /\ IF ~ok
           THEN /\ CfgReturn(ErrSpi)
                /\ cfgEvent' = Event("bus_error", -1, cfgWrites)
           ELSE IF out = CfgOk
           THEN /\ CfgAdvance
                /\ cfgEvent' = Event("complete", res, cfgWrites)
           ELSE IF out = Running
           THEN /\ CfgAgain
                /\ cfgEvent' = Event("wait", res, cfgWrites)
           ELSE /\ CfgReturn(out)
                /\ cfgEvent' = Event(IF Shr(res, 4) % 2 > 0 THEN "failed" ELSE "timeout",
                                     res, cfgWrites)
    /\ UNCHANGED <<chip, cfgNow, cfgWrites>>
    /\ CfgLogged
    /\ UNCHANGED nonCfgVars

CfgSelfTest == CfgTestPass("self_test", "SelfTest")
CfgCalibration == CfgTestPass("calibration", "SelfCalibration")

\* LSM6DS3: `if who_am_i != WHO_AM_I_VALUE { return Err(InvalidChip) }`
LsmWhoAmI ==
    /\ AtStep("who_am_i")
    /\ \E ok \in BOOLEAN, id \in WhoAmIValues :
        /\ cfgBusError' = (cfgBusError \/ ~ok)
        /\ cfgEvent' = Event(IF ok THEN "read" ELSE "bus_error", IF ok THEN id ELSE -1, cfgWrites)
        /\ IF ~ok THEN CfgReturn(ErrSpi)
           ELSE IF id # Plan[cfgPc].val THEN CfgReturn(Res("InvalidChip", "none", -1))
           ELSE CfgAdvance
    /\ UNCHANGED <<chip, cfgNow, cfgWrites>>
    /\ CfgLogged
    /\ UNCHANGED nonCfgVars

\* LSM6DS3, one pass of the reset loop:
\* `if let Ok(IF_INC) = self.read_register(CTRL3_C).await.map_err(Spi) { break }`
\* then `if ..as_secs() >= 1 { return Err(Timeout) }`
LsmResetWait ==
    /\ AtStep("reset_wait")
    /\ \E ok \in BOOLEAN, v \in Ctrl3Values :
        /\ cfgBusError' = (cfgBusError \/ ~ok)
        /\ IF ok /\ v = Plan[cfgPc].val
           THEN /\ CfgAdvance
                /\ cfgEvent' = Event("read", v, cfgWrites)
           ELSE IF AsSecs(cfgNow - cfgStart) >= 1
           THEN /\ CfgReturn(ErrTimeout)
                /\ cfgEvent' = Event(IF ok THEN "timeout" ELSE "bus_error", IF ok THEN v ELSE -1, cfgWrites)
           ELSE /\ CfgAgain
                /\ cfgEvent' = Event(IF ok THEN "wait" ELSE "bus_error", IF ok THEN v ELSE -1, cfgWrites)
    /\ UNCHANGED <<chip, cfgNow, cfgWrites>>
    /\ CfgLogged
    /\ UNCHANGED nonCfgVars

\* `Ok(())` after the last step
CfgDone ==
    /\ cfgResult = Running
    /\ cfgPc = Len(Plan) + 1
    /\ cfgResult' = CfgOk
    /\ UNCHANGED <<chip, cfgPc, cfgNow, cfgStart, cfgWrites, cfgBusError, cfgEvent, cfgLog>>
    /\ UNCHANGED nonCfgVars

\* the clock advances past the instants the model counts: the code uses only
\* the time since a loop began, so the beginning moves back instead
CfgTickLate ==
    /\ cfgResult = Running
    /\ cfgNow = MaxCfgTime
    /\ cfgNow - cfgStart < MaxCfgTime
    /\ cfgStart' = cfgStart - 1
    /\ UNCHANGED <<chip, cfgPc, cfgResult, cfgNow, cfgWrites, cfgBusError, cfgEvent, cfgLog>>
    /\ UNCHANGED nonCfgVars

\* the clock advances while configure() runs
CfgTick ==
    /\ cfgResult = Running
    /\ cfgNow < MaxCfgTime
    /\ cfgNow' = cfgNow + 1
    /\ UNCHANGED <<chip, cfgPc, cfgResult, cfgStart, cfgWrites, cfgBusError, cfgEvent, cfgLog>>
    /\ UNCHANGED nonCfgVars

(***************************************************************************)
(* The mixer of the control loop (drone/src/main.rs) as a function of      *)
(* thrust, roll, pitch and yaw                                             *)
(***************************************************************************)
\* the f32 values the inputs are drawn from
FValues ==
    {NegInf, Num(-3000), Num(-100), Num(0), Num(100), Num(700), Num(3000), PosInf, NaN}

MixInputs == [thrust : FValues, roll : FValues, pitch : FValues, yaw : FValues]

MixIdle ==
    /\ mixIn = [thrust |-> Num(0), roll |-> Num(0), pitch |-> Num(0), yaw |-> Num(0)]
    /\ mixOut = <<>>

MixInit ==
    /\ mixIn \in MixInputs
    /\ mixOut = <<>>

\* lines 137-169 of main: motor_throttles, then mapped_motor_throttles
MixerApply ==
    /\ mixOut = <<>>
    /\ LET motor_throttles ==
               MotorThrottles(mixIn.thrust, mixIn.roll, mixIn.pitch, mixIn.yaw)
       IN  mixOut' = [motor_throttles |-> motor_throttles,
                      mapped_motor_throttles |-> MappedMotorThrottles(motor_throttles)]
    /\ UNCHANGED <<mixIn, dshotVars, oneshotVars, queueVars>>
    /\ UNCHANGED nonPureVars

(***************************************************************************)
(* DShot::encode_frame (esp-ikarus/src/motors/rmt.rs)                      *)
(***************************************************************************)
DSHOT_LIMIT == 2048
ONE_HI == 60
ONE_LO == 20
ZERO_HI == 30
ZERO_LO == 50

\* bitwise operations on u16
RECURSIVE BitOp(_, _, _, _)
BitOp(op, a, b, n) ==
    IF n = 0 THEN 0
    ELSE LET x == a % 2
             y == b % 2
             bit == IF op = "xor" THEN (x + y) % 2
                    ELSE IF op = "or" THEN (IF x + y > 0 THEN 1 ELSE 0)
                    ELSE x * y
         IN  bit + 2 * BitOp(op, a \div 2, b \div 2, n - 1)
BitXor(a, b) == BitOp("xor", a, b, 16)
BitOr(a, b) == BitOp("or", a, b, 16)
BitAnd(a, b) == BitOp("and", a, b, 16)
Shl16(a, n) == (a * (2 ^ n)) % 65536

\* u16::reverse_bits
RECURSIVE ReverseBits(_, _)
ReverseBits(a, n) ==
    IF n = 0 THEN 0
    ELSE (a % 2) * (2 ^ (n - 1)) + ReverseBits(a \div 2, n - 1)

\* `value << 1 | telemetry_request`
EncodeData(value, telemetry_request) ==
    BitOr(Shl16(value, 1), IF telemetry_request THEN 1 ELSE 0)
\* variant with a seeded fault: the third nibble is left out of the checksum
EncodeCrc_two(data) ==
    BitAnd(BitXor(data, Shr(data, 4)), 15)
\* `(data ^ (data >> 4) ^ (data >> 8)) & 0xf`
EncodeCrc(data) ==
    BitAnd(BitXor(BitXor(data, Shr(data, 4)), Shr(data, 8)), 15)
\* `(data << 4) | crc`
EncodePacket(data, crc) == BitOr(Shl16(data, 4), crc)
\* variant with a seeded fault: the pulses follow the packet's bit order, as if
\* the frame had not been bit-reversed
EncodePulse_msb(frame) ==
    [i \in 1..17 |->
        IF i = 17 THEN <<0, 0>>
        ELSE IF Shr(frame, 16 - i) % 2 = 1 THEN <<ONE_HI, ONE_LO>>
        ELSE <<ZERO_HI, ZERO_LO>>]
\* the 16 pulses of the frame, bit 0 of the frame first, then the end marker
EncodePulse(frame) ==
    [i \in 1..17 |->
        IF i = 17 THEN <<0, 0>>
        ELSE IF Shr(frame, i - 1) % 2 = 1 THEN <<ONE_HI, ONE_LO>>
        ELSE <<ZERO_HI, ZERO_LO>>]

DShotInputs == [value : 0..DSHOT_LIMIT, telemetry_request : BOOLEAN]

DShotIdle ==
    /\ dshotIn = [value |-> 0, telemetry_request |-> FALSE]
    /\ dshotOut = <<>>

DShotInit ==
    /\ dshotIn \in DShotInputs
    /\ dshotOut = <<>>

\* encode_frame(value, telemetry_request); the assert panics for value >= 2048
DShotEncode ==
    /\ dshotOut = <<>>
    /\ LET data == EncodeData(dshotIn.value, dshotIn.telemetry_request)
           crc == EncodeCrc(data)
           packet == EncodePacket(data, crc)
           frame == ReverseBits(packet, 16)
       IN  dshotOut' =
               IF dshotIn.value < DSHOT_LIMIT
               THEN [panic |-> FALSE, packet |-> packet, frame |-> frame,
                     pulse |-> EncodePulse(frame)]
               ELSE [panic |-> TRUE, packet |-> 0, frame |-> 0, pulse |-> <<>>]
    /\ UNCHANGED <<dshotIn, mixVars, oneshotVars, queueVars>>
    /\ UNCHANGED nonPureVars

(***************************************************************************)
(* read_imu_task of both drivers with failing bus transactions: the wait  *)
(* for the data-ready interrupt, fifo_status, read_fifo                    *)
(***************************************************************************)
MaxReadErrors == 2

\* fifo_status: the unread word counts of an Ok status that enters the loop
RdUnreadChoices == {1, PATTERNS, MaxUnread}

RdNone == [outcome |-> "none", unread |-> 0, words |-> 0]
RdOutcome(outcome, unread, words) == [outcome |-> outcome, unread |-> unread, words |-> words]

\* variant with a seeded fault: the samples are decoded and sent although
\* read_fifo has failed
SentAfterRead_always(ok, events) == events
\* what one pass of the loop sends: `break` comes before the decoding
SentAfterRead(ok, events) == IF ok THEN events ELSE <<>>

\* variant with a seeded fault: the loop goes on after a failed transaction
AfterTransaction_continue(ok) == "loop"
\* where the task is after a bus transaction of the loop: `while let Ok(..)`
\* ends the loop on Err, and so does `break`
AfterTransaction(ok) == IF ok THEN "loop" ELSE "wait"

RdStartOf(c) ==
    /\ rdChip = c
    /\ rdPc = "wait"
    /\ rdLast = RdNone
    /\ rdErrors = 0

RdIdle == RdStartOf("LSM6DS3")

RdInit == \E c \in Chips : RdStartOf(c)

\* wait_for_data().await returns: int1 is high
RdWake ==
    /\ rdPc = "wait"
    /\ rdPc' = "loop"
    /\ rdLast' = RdOutcome("wake", 0, 0)
    /\ UNCHANGED <<rdChip, rdErrors>>
    /\ UNCHANGED <<lsmVars, bmiVars>>
    /\ UNCHANGED nonReaderVars

\* fifo_status().await returns Err: the pattern of `while let` does not match
RdStatusError ==
    /\ rdPc = "loop"
    /\ rdErrors < MaxReadErrors
    /\ rdPc' = AfterTransaction(FALSE)
    /\ rdLast' = RdOutcome("status_err", 0, 0)
    /\ rdErrors' = rdErrors + 1
    /\ IF rdChip = "LSM6DS3"
       THEN /\ pollOut' = SentAfterRead(FALSE, pollOut)
            /\ UNCHANGED <<buf, leftover_len, hwPos, pollCount, lastPoll, clean>>
            /\ UNCHANGED bmiVars
       ELSE /\ bmiOut' = SentAfterRead(FALSE, bmiOut)
            /\ UNCHANGED <<bmiBuf, bmiPos, bmiCount, bmiLast>>
            /\ UNCHANGED lsmVars
    /\ UNCHANGED rdChip
    /\ UNCHANGED nonReaderVars

\* fifo_status().await returns Ok with unread_words = 0: the pattern
\* `unread_words @ 1..` does not match
RdEmpty ==
    /\ rdPc = "loop"
    /\ rdPc' = "wait"
    /\ rdLast' = RdOutcome("empty", 0, 0)
    /\ UNCHANGED <<rdChip, rdErrors>>
    /\ UNCHANGED <<lsmVars, bmiVars>>
    /\ UNCHANGED nonReaderVars

\* LSM6DS3: the status is Ok with unread words and read_fifo returns Err;
\* the FIFO and the slice of buf are as before the read or as after it
RdLsmReadError ==
    /\ rdChip = "LSM6DS3"
    /\ rdPc = "loop"
    /\ rdErrors < MaxReadErrors
    /\ \E over_run \in BOOLEAN, unread_words \in RdUnreadChoices, done \in BOOLEAN :
        LET pattern == hwPos % PATTERNS
            end == ReadQueueEnd(pattern, unread_words)
            n == end \div BYTES_PER_WORD
            lag == LagSkip(over_run, leftover_len, pattern)
            b1 == IF done THEN ReadFifo(buf, end, hwPos, n) ELSE buf
        IN  /\ pattern < PATTERNS
            /\ pollOut' = SentAfterRead(FALSE, Events(b1, n, lag))
            /\ buf' = b1
            /\ hwPos' = IF done THEN hwPos + n ELSE hwPos
            /\ rdLast' = RdOutcome("read_err", unread_words, n)
    /\ rdPc' = AfterTransaction(FALSE)
    /\ rdErrors' = rdErrors + 1
    /\ UNCHANGED <<leftover_len, pollCount, lastPoll, clean>>
    /\ UNCHANGED <<rdChip, bmiVars>>
    /\ UNCHANGED nonReaderVars

\* LSM6DS3: the status is Ok with unread words and read_fifo returns Ok
RdLsmPoll ==
    /\ rdChip = "LSM6DS3"
    /\ rdPc = "loop"
    /\ pollCount < MaxPolls
    /\ \E over_run \in BOOLEAN, unread_words \in RdUnreadChoices :
        /\ Poll(0, over_run, unread_words, TRUE)
        /\ rdLast' = RdOutcome("ok", unread_words,
                               ReadQueueEnd(hwPos % PATTERNS, unread_words) \div BYTES_PER_WORD)
    /\ rdPc' = AfterTransaction(TRUE)
    /\ UNCHANGED <<rdChip, rdErrors>>

\* BMI323: the status is Ok with unread words and read_fifo returns Err
RdBmiReadError ==
    /\ rdChip = "BMI323"
    /\ rdPc = "loop"
    /\ rdErrors < MaxReadErrors
    /\ \E unread_words \in RdUnreadChoices, done \in BOOLEAN :
        LET len == Min(unread_words * 2, BMI_BUF_LEN)
            consumed == Min(unread_words, BmiBufWords)
            b1 == IF done THEN BmiReadFifo(bmiPos, consumed) ELSE bmiBuf
        IN  /\ bmiOut' = SentAfterRead(FALSE, BmiEvents(b1, len))
            /\ bmiBuf' = b1
            /\ bmiPos' = IF done THEN bmiPos + consumed ELSE bmiPos
            /\ rdLast' = RdOutcome("read_err", unread_words, len \div 2)
    /\ rdPc' = AfterTransaction(FALSE)
    /\ rdErrors' = rdErrors + 1
    /\ UNCHANGED <<bmiCount, bmiLast>>
    /\ UNCHANGED <<rdChip, lsmVars>>
    /\ UNCHANGED nonReaderVars

\* BMI323: the status is Ok with unread words and read_fifo returns Ok
RdBmiPoll ==
    /\ rdChip = "BMI323"
    /\ rdPc = "loop"
    /\ bmiCount < MaxPolls
    /\ \E fifo_full \in BOOLEAN, unread_words \in RdUnreadChoices :
        /\ BmiPollStep(0, fifo_full, unread_words)
        /\ rdLast' = RdOutcome("ok", unread_words, Min(unread_words * 2, BMI_BUF_LEN) \div 2)
    /\ rdPc' = AfterTransaction(TRUE)
    /\ UNCHANGED <<rdChip, rdErrors>>

(***************************************************************************)
(* OneShot::throttle_transform and encode_oneshot_pulse                    *)
(* (esp-ikarus/src/motors/rmt.rs, drone/src/motors.rs)                     *)
(***************************************************************************)
U16_MAX == 65535
ONESHOT_BASE == 1000

\* variant with a seeded fault: the halved throttle is not capped
OneShotTransform_uncapped(throttle) ==
    (throttle \div 2) + ONESHOT_BASE
\* `(throttle / 2).min(1000) + 1000`
OneShotTransform(throttle) ==
    Min(throttle \div 2, ONESHOT_BASE) + ONESHOT_BASE

\* a pulse code as <<length of the high level, length of the low level>>
EndMarker == <<0, 0>>

\* `[PulseCode::new(Level::High, value, Level::Low, 0), PulseCode::end_marker()]`
EncodeOneshotPulse(value) == << <<value, 0>>, EndMarker >>

OneShotIdle ==
    /\ oneshotIn = 0
    /\ oneshotOut = <<>>

OneShotInit ==
    /\ oneshotIn \in 0..U16_MAX
    /\ oneshotOut = <<>>

\* send_esc_value(throttle_transform(throttle)) up to the transmit
OneShotEncode ==
    /\ oneshotOut = <<>>
    /\ LET value == OneShotTransform(oneshotIn)
       IN  oneshotOut' = [value |-> value, pulse |-> EncodeOneshotPulse(value)]
    /\ UNCHANGED <<oneshotIn, mixVars, dshotVars, queueVars>>
    /\ UNCHANGED nonPureVars

(***************************************************************************)
(* Motors<Proto>: send_esc_value, send_esc_values, send_throttles and      *)
(* arm_dshot (esp-ikarus/src/motors/rmt.rs, drone/src/motors.rs)           *)
(***************************************************************************)
MaxEscMillis == 2100
EscTickMillis == 210

ARM_DSHOT_MILLIS == 420
DSHOT_MIN == 1
DSHOT_MAX == 1999
DSHOT_OFFSET == 48

Protocols == {"OneShot", "DShot"}

\* variant with a seeded fault: the throttle is only offset, not clamped
DShotTransform_unclamped(throttle) ==
    (throttle + DSHOT_OFFSET) % (U16_MAX + 1)
\* `throttle.clamp(1, 1999) + 48`
DShotTransform(throttle) ==
    Max(DSHOT_MIN, Min(DSHOT_MAX, throttle)) + DSHOT_OFFSET

\* Proto::throttle_transform
ThrottleTransform(proto, throttle) ==
    IF proto = "DShot" THEN DShotTransform(throttle) ELSE OneShotTransform(throttle)

\* Proto::encode_pulse panics: the assert of encode_frame fails for a value of
\* 2048 or more; encode_oneshot_pulse takes every value
EncodePanics(proto, value) ==
    proto = "DShot" /\ ~(value < DSHOT_LIMIT)

\* variant with a seeded fault: the fourth send sets line 0 low
MuxScript_low ==
    << << <<0, 0>>, <<1, 0>> >>,
       << <<0, 0>>, <<1, 1>> >>,
       << <<0, 1>>, <<1, 0>> >>,
       << <<0, 0>>, <<1, 1>> >> >>
\* the select lines send_esc_values sets before each of its four sends, in
\* the order of the code: [line, level]
MuxScript ==
    << << <<0, 0>>, <<1, 0>> >>,
       << <<0, 0>>, <<1, 1>> >>,
       << <<0, 1>>, <<1, 0>> >>,
       << <<1, 1>>, <<1, 1>> >> >>

\* mux_slct after two set_low/set_high calls
MuxAfter(mux, sets) ==
    LET one(m, s) == [m EXCEPT ![s[1] + 1] = s[2]]
    IN  one(one(mux, sets[1]), sets[2])

\* mux_slct before the k-th send of send_esc_values
RECURSIVE MuxAt(_, _)
MuxAt(mux, k) ==
    IF k = 0 THEN mux ELSE MuxAfter(MuxAt(mux, k - 1), MuxScript[k])

\* variant with a seeded fault: a failed transmit ends send_esc_values
SendsDone_abort(values, oks) ==
    IF \E k \in 1..4 : ~oks[k]
    THEN CHOOSE k \in 1..4 : ~oks[k] /\ \A j \in 1..(k - 1) : oks[j]
    ELSE 4
\* the number of send_esc_value calls send_esc_values gets to: a transmit
\* error is logged and ignored, a panic of encode_pulse ends the call
SendsDone(values, oks) ==
    IF \E k \in 1..4 : EncodePanics(escProto, values[k])
    THEN CHOOSE k \in 1..4 :
             /\ EncodePanics(escProto, values[k])
             /\ \A j \in 1..(k - 1) : ~EncodePanics(escProto, values[j])
    ELSE 4

\* one call of send_esc_values(values); oks[k] tells whether the k-th
\* transmit succeeds
SendEscValues(path, throttles, values, oks) ==
    LET n == SendsDone(values, oks)
        panics == EncodePanics(escProto, values[n])
    IN  /\ escLast' = [path |-> path, throttles |-> throttles, values |-> values,
                       sends |-> [k \in 1..n |->
                                     [motor |-> k,
                                      mux |-> MuxAt(escMux, k),
                                      value |-> values[k],
                                      transmitted |-> ~EncodePanics(escProto, values[k]),
                                      ok |-> oks[k] /\ ~EncodePanics(escProto, values[k])]],
                       logged |-> Cardinality({k \in 1..n :
                                     ~EncodePanics(escProto, values[k]) /\ ~oks[k]}),
                       returned |-> ~panics]
        /\ escMux' = MuxAt(escMux, n)
        /\ escPanic' = panics

\* the arrays the callers of send_throttles pass
ThrottleArrays ==
    {<<v, v, v, v>> : v \in {0, 1, 47, 1000, 1999, 2000, 2047, 2048, 4000, U16_MAX}}
        \cup {<<0, 47, 2000, U16_MAX>>, <<1000, 1100, 1100, 900>>}

Outcomes == [1..4 -> BOOLEAN]

EscNoCall ==
    [path |-> "none", throttles |-> <<>>, values |-> <<>>, sends |-> <<>>,
     logged |-> 0, returned |-> TRUE]

EscStartOf(proto) ==
    /\ escProto = proto
    /\ escPc = "idle"
    /\ escPhase = 0
    /\ escNow = 0
    /\ escEnd = 0
    /\ escArmed = FALSE
    /\ escMux = <<0, 0>>
    /\ escPanic = FALSE
    /\ escLast = EscNoCall

EscIdle == EscStartOf("OneShot")

EscInit == \E proto \in Protocols : EscStartOf(proto)

\* send_throttles(throttles), called by the control loop
EscSendThrottles ==
    /\ escPc = "idle"
    /\ ~escPanic
    /\ \E throttles \in ThrottleArrays, oks \in Outcomes :
           SendEscValues("send_throttles", throttles,
                         [k \in 1..4 |-> ThrottleTransform(escProto, throttles[k])], oks)
    /\ UNCHANGED <<escProto, escPc, escPhase, escNow, escEnd, escArmed>>
    /\ UNCHANGED nonEscVars

\* arm_dshot: the values of each phase, and whether they go through
\* send_throttles
ArmDShotScript ==
    << [value |-> 0, transformed |-> FALSE],
       [value |-> 48, transformed |-> FALSE],
       [value |-> 0, transformed |-> TRUE] >>

\* arm_dshot is called: `end` of the first phase is taken
EscArmStart ==
    /\ escProto = "DShot"
    /\ escPc = "idle"
    /\ ~escPanic
    /\ ~escArmed
    /\ escPc' = "arm"
    /\ escPhase' = 1
    /\ escEnd' = escNow + ARM_DSHOT_MILLIS
    /\ UNCHANGED <<escProto, escNow, escArmed, escMux, escPanic, escLast>>
    /\ UNCHANGED nonEscVars

\* one test of `Instant::now() <= end` in arm_dshot and what follows it
EscArmLoop ==
    /\ escPc = "arm"
    /\ ~escPanic
    /\ IF escNow <= escEnd
       THEN /\ LET ph == ArmDShotScript[escPhase]
                   arr == <<ph.value, ph.value, ph.value, ph.value>>
               IN  \E oks \in Outcomes :
                       IF ph.transformed
                       THEN SendEscValues("arm_dshot", arr,
                                [k \in 1..4 |-> ThrottleTransform(escProto, arr[k])], oks)
                       ELSE SendEscValues("arm_dshot", <<>>, arr, oks)
            /\ UNCHANGED <<escPc, escPhase, escEnd, escArmed>>
       ELSE /\ IF escPhase < Len(ArmDShotScript)
               THEN /\ escPhase' = escPhase + 1
                    /\ escEnd' = escNow + ARM_DSHOT_MILLIS
                    /\ UNCHANGED <<escPc, escArmed>>
               ELSE /\ escPc' = "idle"
                    /\ escArmed' = TRUE
                    /\ UNCHANGED <<escPhase, escEnd>>
            /\ UNCHANGED <<escMux, escPanic, escLast>>
    /\ UNCHANGED <<escProto, escNow>>
    /\ UNCHANGED nonEscVars

\* time passes while arm_dshot runs
EscTick ==
    /\ escPc = "arm"
    /\ escNow < MaxEscMillis
    /\ escNow' = escNow + EscTickMillis
    /\ UNCHANGED <<escProto, escPc, escPhase, escEnd, escArmed, escMux, escPanic,
                   escLast>>
    /\ UNCHANGED nonEscVars

(***************************************************************************)
(* Pid and ComplementaryFilterFusion (drone/src/sensor_fusion.rs)          *)
(* An angle, an error, a sum or a control value x is the f32 x / FusUnit:  *)
(* with alpha a multiple of 1/4 every operation of the model is exact for  *)
(* MaxFusionCalls calls of advance. Rates, accelerations, dt and the gains *)
(* are whole numbers.                                                      *)
(***************************************************************************)
MaxFusionCalls == 3
FusUnit == 4 ^ MaxFusionCalls

IMU_AXIS_MAP == <<1, 2, 3>>
\* variant with a seeded fault: the z axis is not inverted
IMU_AXIS_SCALE_same == <<1, 1, 1>>
IMU_AXIS_SCALE == <<1, 1, -1>>

\* a product of two f32 (one of them a whole number of the model)
FMul(a, b) ==
    IF a.k = "nan" \/ b.k = "nan" THEN NaN
    ELSE IF a.k = "inf" \/ b.k = "inf"
    THEN (IF a.v = 0 \/ b.v = 0 THEN NaN
          ELSE IF (a.v > 0) = (b.v > 0) THEN PosInf ELSE NegInf)
    ELSE Num(a.v * b.v)

\* a quotient of two f32: x / 0.0 is NaN for x = 0.0 and infinite otherwise
FDiv(a, b) ==
    IF a.k = "nan" \/ b.k = "nan" THEN NaN
    ELSE IF a.k = "inf" /\ b.k = "inf" THEN NaN
    ELSE IF a.k = "inf" THEN (IF (a.v > 0) = (b.v >= 0) THEN PosInf ELSE NegInf)
    ELSE IF b.k = "inf" THEN Num(0)
    ELSE IF b.v = 0 THEN (IF a.v = 0 THEN NaN ELSE IF a.v > 0 THEN PosInf ELSE NegInf)
    ELSE Num(a.v \div b.v)

\* f32::sqrt, exact on the squares of the model
FSqrt(a) ==
    IF a.k = "nan" THEN NaN
    ELSE IF a.k = "inf" THEN (IF a.v > 0 THEN PosInf ELSE NaN)
    ELSE IF a.v < 0 THEN NaN
    ELSE Num(CHOOSE r \in 0..a.v : r * r <= a.v /\ (r + 1) * (r + 1) > a.v)

\* the sign of a finite or infinite f32
Sgn(a) == IF a.v > 0 THEN 1 ELSE IF a.v < 0 THEN -1 ELSE 0

\* `F::atan2(y, x) * RAD2DEG` in degrees, for arguments on an axis or on a
\* diagonal (the samples of the model give no others); a zero is +0.0
Atan2Deg(y, x) ==
    IF y.k = "nan" \/ x.k = "nan" THEN NaN
    ELSE LET sy == Sgn(y)
             sx == Sgn(x)
             deg == IF sy = 0 THEN (IF sx < 0 THEN 180 ELSE 0)
                    ELSE IF sx = 0 THEN 90 * sy
                    ELSE IF sx > 0 THEN 45 * sy
                    ELSE 135 * sy
         IN  Num(deg * FusUnit)

\* `alpha * x` for alpha = num / den
FAlpha(num, den, x) ==
    IF x.k # "num" THEN x ELSE Num((num * x.v) \div den)

\* variant with a seeded fault: the output is computed before error is added
\* to sum
PidAdvance_lateSum(pid, error) ==
    LET control == FAdd(FAdd(FMul(Num(pid.k_p), error), FMul(Num(pid.k_i), pid.sum)),
                        FMul(Num(pid.k_d), FSub(pid.last_input, error)))
    IN  [pid |-> [pid EXCEPT !.sum = FAdd(pid.sum, error), !.last_input = error],
         control |-> control]
\* Pid::advance: the controller after the call and the returned control
PidAdvance(pid, error) ==
    LET sum == FAdd(pid.sum, error)
        control == FAdd(FAdd(FMul(Num(pid.k_p), error), FMul(Num(pid.k_i), sum)),
                        FMul(Num(pid.k_d), FSub(pid.last_input, error)))
    IN  [pid |-> [pid EXCEPT !.sum = sum, !.last_input = error],
         control |-> control]

\* the Pid of ComplementaryFilterFusion::new
NewPid(k_p, k_i, k_d) ==
    [k_p |-> k_p, k_i |-> k_i, k_d |-> k_d, last_input |-> Num(0), sum |-> Num(0)]

\* ComplementaryFilterFusion::new
NewFusion(alpha, orientation, target, k_p, k_i, k_d) ==
    [alpha |-> alpha,
     orientation |-> orientation,
     target |-> target,
     pid |-> [i \in 1..3 |-> NewPid(k_p[i], k_i[i], k_d[i])]]

\* an array of whole degrees as f32 angles
Degrees(a) == [i \in 1..3 |-> Num(a[i] * FusUnit)]

\* variant with a seeded fault: set_target starts the controllers afresh
SetTarget_reset(f, target) ==
    [f EXCEPT !.target = target,
              !.pid = [i \in 1..3 |-> NewPid(f.pid[i].k_p, f.pid[i].k_i, f.pid[i].k_d)]]
\* set_target
SetTarget(f, target) == [f EXCEPT !.target = target]

\* gyro_orientation
GyroOrientation(f, sample) ==
    [i \in 1..3 |->
        FAdd(f.orientation[i],
             Num(IMU_AXIS_SCALE[i] * sample.gyro[IMU_AXIS_MAP[i]] * sample.dt * FusUnit))]

\* gravity
Gravity(sample) ==
    [i \in 1..3 |-> Num(IMU_AXIS_SCALE[i] * sample.accel[IMU_AXIS_MAP[i]] * sample.dt)]

\* gravity_norm
GravityNorm(gravity) ==
    FSqrt(FAdd(FAdd(FMul(gravity[1], gravity[1]), FMul(gravity[2], gravity[2])),
               FMul(gravity[3], gravity[3])))

\* ngravity: no test of gravity_norm comes before the divisions
NGravity(gravity) ==
    [i \in 1..3 |-> FDiv(gravity[i], GravityNorm(gravity))]

\* accel_orientation
AccelOrientation(gravity) ==
    LET ngravity == NGravity(gravity)
    IN  << FNeg(Atan2Deg(ngravity[2], ngravity[3])),
           FNeg(Atan2Deg(FNeg(gravity[1]),
                         FSqrt(FAdd(FMul(ngravity[2], ngravity[2]),
                                    FMul(ngravity[3], ngravity[3]))))),
           Num(0) >>

\* the orientation advance stores
NextOrientation(f, sample) ==
    LET g == GyroOrientation(f, sample)
        a == AccelOrientation(Gravity(sample))
        blend(i) == FAdd(FAlpha(f.alpha.num, f.alpha.den, g[i]),
                         FAlpha(f.alpha.den - f.alpha.num, f.alpha.den, a[i]))
    IN  <<blend(1), blend(2), g[3]>>

\* ComplementaryFilterFusion::advance: the object after the call, the errors
\* given to the three controllers and the returned controls
Advance(f, sample) ==
    LET orientation == NextOrientation(f, sample)
        error == [i \in 1..3 |-> FSub(f.target[i], orientation[i])]
        step == [i \in 1..3 |-> PidAdvance(f.pid[i], error[i])]
    IN  [fusion |-> [f EXCEPT !.orientation = orientation,
                              !.pid = [i \in 1..3 |-> step[i].pid]],
         error |-> error,
         control |-> [i \in 1..3 |-> step[i].control]]

\* the arguments of `new` the model constructs the filter with
Alphas == {[num |-> 1, den |-> 2], [num |-> 3, den |-> 4]}
InitialOrientations == {<<0, 0, 0>>, <<8, -4, 30>>}
GainChoices ==
    {[k_p |-> <<15, 15, 15>>, k_i |-> <<0, 0, 0>>, k_d |-> <<0, 0, 0>>],
     [k_p |-> <<2, 3, 5>>, k_i |-> <<1, 1, 1>>, k_d |-> <<3, 0, 1>>]}

\* the arguments of set_target
TargetChoices == {<<0, 0, 0>>, <<10, -10, 1>>}

\* the samples given to advance: at rest with gravity along -z and along +z,
\* without any acceleration, with dt = 0, rotating, lying on a side
Samples ==
    {[gyro |-> <<0, 0, 0>>, accel |-> <<0, 0, -1>>, dt |-> 1],
     [gyro |-> <<0, 0, 0>>, accel |-> <<0, 0, 1>>, dt |-> 1],
     [gyro |-> <<0, 0, 0>>, accel |-> <<0, 0, 0>>, dt |-> 1],
     [gyro |-> <<4, -8, 2>>, accel |-> <<0, 0, 1>>, dt |-> 0],
     [gyro |-> <<4, -8, 2>>, accel |-> <<0, 0, -1>>, dt |-> 1],
     [gyro |-> <<0, 0, 0>>, accel |-> <<1, 0, 0>>, dt |-> 1]}

NoSample == [gyro |-> <<0, 0, 0>>, accel |-> <<0, 0, 0>>, dt |-> 0]
NoControl == <<Num(0), Num(0), Num(0)>>

FusStartOf(alpha, orientation, target, gains) ==
    /\ fusion = NewFusion(alpha, Degrees(orientation), Degrees(target),
                          gains.k_p, gains.k_i, gains.k_d)
    /\ fusCalls = 0
    /\ errLog = <<>>
    /\ fusLast = [op |-> "new", sample |-> NoSample, before |-> Degrees(orientation),
                  control |-> NoControl]

\* `ComplementaryFilterFusion::new(0.95, [0.0; 3], [0.0; 3], [15.0; 3], [0.0; 3],
\* [0.0; 3])` of main
FusIdle ==
    FusStartOf([num |-> 19, den |-> 20], <<0, 0, 0>>, <<0, 0, 0>>,
               [k_p |-> <<15, 15, 15>>, k_i |-> <<0, 0, 0>>, k_d |-> <<0, 0, 0>>])

FusInit ==
    \E alpha \in Alphas, orientation \in InitialOrientations, gains \in GainChoices :
        FusStartOf(alpha, orientation, <<0, 0, 0>>, gains)

\* fusion.advance(sample)
FusAdvance ==
    /\ fusCalls < MaxFusionCalls
    /\ \E sample \in Samples :
        LET r == Advance(fusion, sample)
        IN  /\ fusion' = r.fusion
            /\ errLog' = Append(errLog, r.error)
            /\ fusLast' = [op |-> "advance", sample |-> sample,
                           before |-> fusion.orientation, control |-> r.control]
    /\ fusCalls' = fusCalls + 1
    /\ UNCHANGED nonFusVars

\* fusion.set_target(target)
FusSetTarget ==
    /\ \E target \in TargetChoices :
        /\ Degrees(target) # fusion.target
        /\ fusion' = SetTarget(fusion, Degrees(target))
    /\ fusLast' = [fusLast EXCEPT !.op = "set_target"]
    /\ UNCHANGED <<fusCalls, errLog>>
    /\ UNCHANGED nonFusVars
(***************************************************************************)
(* Frame and FrameStreamDecoder (common-messages/src/lib.rs)               *)
(* A message is the sequence of bytes wincode serializes it to; every      *)
(* message of the model has PayloadLen bytes. The buffer of the decoder    *)
(* holds one longest frame (1024 bytes in the source).                     *)
(***************************************************************************)
PayloadLen == 2
MaxFrameData == 4
MaxMessages == 2

FRAME_START == 0
FRAME_END == 255
BUFFER_LEN == 2 * PayloadLen + 2

\* the bytes of the model: START, END and one other byte
Bytes == {FRAME_START, 1, FRAME_END}

\* the sequences of at most n bytes
RECURSIVE ByteSeqs(_)
ByteSeqs(n) ==
    IF n = 0 THEN {<<>>}
    ELSE LET shorter == ByteSeqs(n - 1)
         IN  shorter \cup {Append(s, b) : s \in {t \in shorter : Len(t) = n - 1}, b \in Bytes}

Messages == {s \in ByteSeqs(PayloadLen) : Len(s) = PayloadLen}

FrameOk(v) == [ok |-> TRUE, v |-> v]
FrameErr(e) == [ok |-> FALSE, v |-> e]

\* the loop of escaped: START and END bytes are written twice
RECURSIVE EscapedBody(_)
\* variant with a seeded fault: no byte is written twice
EscapedBody_plain(data) == data
EscapedBody(data) ==
    IF data = <<>> THEN <<>>
    ELSE LET byte == Head(data)
         IN  (IF byte = FRAME_START \/ byte = FRAME_END THEN <<byte, byte>> ELSE <<byte>>)
                 \o EscapedBody(Tail(data))

\* Frame::escaped
Escaped(data) == <<FRAME_START>> \o EscapedBody(data) \o <<FRAME_END>>

\* the loop of unescaped, i being i + 1 of the source
RECURSIVE UnescapedFrom(_, _, _)
UnescapedFrom(data, i, result) ==
    IF i >= Len(data) THEN FrameOk(result)
    ELSE LET byte == data[i]
         IN  IF byte = FRAME_START \/ byte = FRAME_END
             THEN IF i + 1 > Len(data) THEN FrameErr("Incomplete")
                  ELSE IF data[i + 1] # byte THEN FrameErr("Corrupted")
                  ELSE UnescapedFrom(data, i + 2, Append(result, byte))
             ELSE UnescapedFrom(data, i + 1, Append(result, byte))

\* Frame::unescaped
Unescaped(data) ==
    IF data = <<>> \/ Head(data) # FRAME_START THEN FrameErr("Corrupted")
    ELSE IF Len(data) < 2 THEN FrameErr("Incomplete")
    ELSE IF data[Len(data)] # FRAME_END THEN FrameErr("Incomplete")
    ELSE UnescapedFrom(data, 2, <<>>)

\* wincode::serialize_into and wincode::deserialize_mut: bytes that are too few
\* are an error; whether bytes after the message are one is the library's choice
Serialize(v) == v
Deserialize(bytes, trailing) ==
    IF Len(bytes) = PayloadLen THEN FrameOk(bytes)
    ELSE IF Len(bytes) > PayloadLen /\ trailing THEN FrameOk(SubSeq(bytes, 1, PayloadLen))
    ELSE FrameErr("Corrupted")

\* Frame::encode and Frame::decode
Encode(v) == Escaped(Serialize(v))
Decode(data, trailing) ==
    LET unescaped == Unescaped(data)
    IN  IF unescaped.ok THEN Deserialize(unescaped.v, trailing) ELSE unescaped

\* the positions from `from` on where the buffer holds a byte
Positions(buffer, from, byte) == {k \in from..Len(buffer) : buffer[k] = byte}
First(S) == CHOOSE k \in S : \A j \in S : k <= j

\* FrameStreamDecoder::next on the buffer[..len]: the message returned, if any,
\* and the buffer[..len] after the shift
RECURSIVE DecoderNext(_, _, _)
DecoderNext(buffer, processed_up_to, trailing) ==
    LET none(kept_from) == [some |-> FALSE, msg |-> <<>>,
                            buffer |-> SubSeq(buffer, kept_from + 1, Len(buffer))]
        starts == Positions(buffer, processed_up_to + 1, FRAME_START)
    IN  IF processed_up_to >= Len(buffer) THEN none(Len(buffer))
        ELSE IF starts = {} THEN none(Len(buffer))
        ELSE LET frame_start == First(starts)
                 ends == Positions(buffer, frame_start, FRAME_END)
             IN  IF ends = {} THEN none(frame_start - 1)
                 ELSE LET frame_end == First(ends)
                          decoded == Decode(SubSeq(buffer, frame_start, frame_end), trailing)
                      IN  IF decoded.ok
                          THEN [some |-> TRUE, msg |-> decoded.v,
                                buffer |-> SubSeq(buffer, frame_end + 1, Len(buffer))]
                          ELSE IF decoded.v = "Incomplete" THEN none(processed_up_to)
                          ELSE DecoderNext(buffer, frame_end, trailing)

\* the end of a frame whose beginning was lost
FrameTails == {SubSeq(Encode(v), k, Len(Encode(v))) : v \in Messages, k \in 2..(2 * PayloadLen + 3)}
                 \ {<<>>}

\* the streams of whole frames, after nothing or after the end of a frame
RECURSIVE Concat(_)
Concat(frames) == IF frames = <<>> THEN <<>> ELSE Head(frames) \o Concat(Tail(frames))
MessageSeqs == UNION {[1..n -> Messages] : n \in 0..MaxMessages}

FrameNone == [data |-> <<>>, trailing |-> FALSE]
FrameIdle ==
    /\ frameIn = FrameNone
    /\ frameOut = <<>>
    /\ decBuf = <<>>
    /\ decPending = <<>>
    /\ decSent = <<>>
    /\ decOut = <<>>
    /\ decFrames = TRUE
    /\ decTrailing = FALSE
    /\ decLast = [op |-> "new", some |-> FALSE, full |-> FALSE, discarded |-> 0]

FrameInit ==
    /\ frameIn \in [data : ByteSeqs(MaxFrameData), trailing : BOOLEAN]
    /\ frameOut = <<>>
    /\ decBuf = <<>>
    /\ decPending = <<>>
    /\ decSent = <<>>
    /\ decOut = <<>>
    /\ decFrames = TRUE
    /\ decTrailing = FALSE
    /\ decLast = [op |-> "new", some |-> FALSE, full |-> FALSE, discarded |-> 0]

\* FrameStreamDecoder::new, and what will arrive: frames of messages, or any bytes
DecInit ==
    /\ frameIn = FrameNone
    /\ frameOut = <<>>
    /\ decBuf = <<>>
    /\ decOut = <<>>
    /\ decTrailing \in BOOLEAN
    /\ decLast = [op |-> "new", some |-> FALSE, full |-> FALSE, discarded |-> 0]
    /\ \/ /\ decFrames = TRUE
          /\ decSent \in MessageSeqs
          /\ \E tail \in FrameTails \cup {<<>>} :
                decPending = tail \o Concat([n \in 1..Len(decSent) |-> Encode(decSent[n])])
       \/ /\ decFrames = FALSE
          /\ decSent = <<>>
          /\ decPending \in ByteSeqs(BUFFER_LEN + 1) \ {<<>>}

\* Frame::decode(&Frame::encode(&v)), for a byte sequence of any length
FrameRoundTrip ==
    /\ frameOut = <<>>
    /\ frameIn # FrameNone
    /\ frameOut' = <<[escaped |-> Escaped(frameIn.data),
                      unescaped |-> Unescaped(Escaped(frameIn.data)),
                      decoded |-> Decode(Encode(frameIn.data), frameIn.trailing)]>>
    /\ UNCHANGED <<frameIn, decBuf, decPending, decSent, decOut, decFrames, decTrailing,
                   decLast>>
    /\ UNCHANGED nonFrameVars

\* decoder.receive(f): f writes read_len bytes into buffer[len..]
DecReceive ==
    /\ \E read_len \in 0..Min(BUFFER_LEN - Len(decBuf), Len(decPending)) :
        /\ decBuf' = decBuf \o SubSeq(decPending, 1, read_len)
        /\ decPending' = SubSeq(decPending, read_len + 1, Len(decPending))
    /\ decLast' = [op |-> "receive", some |-> FALSE, full |-> FALSE, discarded |-> 0]
    /\ UNCHANGED <<frameIn, frameOut, decSent, decOut, decFrames, decTrailing>>
    /\ UNCHANGED nonFrameVars

\* decoder.next()
DecNext ==
    /\ LET r == DecoderNext(decBuf, 0, decTrailing)
       IN  /\ decBuf' = r.buffer
           /\ decOut' = IF r.some THEN Append(decOut, r.msg) ELSE decOut
           /\ decLast' = [op |-> "next", some |-> r.some,
                          full |-> Len(decBuf) = BUFFER_LEN,
                          discarded |-> Len(decBuf) - Len(r.buffer)]
    /\ UNCHANGED <<frameIn, frameOut, decPending, decSent, decFrames, decTrailing>>
    /\ UNCHANGED nonFrameVars
(***************************************************************************)
(* The motor test program (esp-ikarus/src/bin/main.rs) and arm_oneshot of  *)
(* esp-ikarus/src/motors/rmt.rs                                            *)
(***************************************************************************)
MaxBenchTime == 6

\* bytes of the serial input
NL == 10
IsDigit(b) == 48 <= b /\ b <= 57
DigitOf(b) == b - 48

\* what drain_rx_fifo can deliver in one pass of the loop: nothing, "7\n",
\* "100\n", "2500\n", "RAMP\n", "ARM\n", and "1" without a newline
Chunks ==
    { <<>>,
      <<55, 10>>,
      <<49, 48, 48, 10>>,
      <<50, 53, 48, 48, 10>>,
      <<82, 65, 77, 80, 10>>,
      <<65, 82, 77, 10>>,
      <<49>> }

\* `len = rx.drain_rx_fifo(&mut buf[len..])`: the bytes go behind the first
\* len bytes, as many as fit
DrainLen(len, chunk) == Min(Len(chunk), 5 - len)
DrainBuf(b, len, chunk) ==
    [i \in 1..5 |->
        IF i > len /\ i <= len + DrainLen(len, chunk) THEN chunk[i - len] ELSE b[i]]

\* whether buf[0..len] contains a newline
HasNewline(b, len) == \E i \in 1..len : b[i] = NL

\* `match buf { .. }`: the arm taken, and the number of the numeric arms
MatchBuf(b, len) ==
    IF b = <<82, 65, 77, 80, 10>> THEN [arm |-> "RAMP", value |-> 0]
    ELSE IF SubSeq(b, 1, 4) = <<65, 82, 77, 10>> THEN [arm |-> "ARM", value |-> 0]
    ELSE IF IsDigit(b[1]) /\ b[2] = NL
         THEN [arm |-> "number", value |-> DigitOf(b[1])]
    ELSE IF IsDigit(b[1]) /\ IsDigit(b[2]) /\ b[3] = NL
         THEN [arm |-> "number", value |-> 10 * DigitOf(b[1]) + DigitOf(b[2])]
    ELSE IF IsDigit(b[1]) /\ IsDigit(b[2]) /\ IsDigit(b[3]) /\ b[4] = NL
         THEN [arm |-> "number",
               value |-> 100 * DigitOf(b[1]) + 10 * DigitOf(b[2]) + DigitOf(b[3])]
    ELSE IF IsDigit(b[1]) /\ IsDigit(b[2]) /\ IsDigit(b[3]) /\ IsDigit(b[4]) /\ b[5] = NL
         THEN [arm |-> "number",
               value |-> 1000 * DigitOf(b[1]) + 100 * DigitOf(b[2])
                         + 10 * DigitOf(b[3]) + DigitOf(b[4])]
    ELSE IF len = 5 THEN [arm |-> "discard", value |-> 0]
    ELSE IF HasNewline(b, len) THEN [arm |-> "discard", value |-> 0]
    ELSE [arm |-> "continue", value |-> 0]

\* `.clamp(0, 2047)`
ClampThrottle(v) == Max(0, Min(2047, v))

\* arm_oneshot of rmt.rs: the throttle of each phase and its seconds
ArmScript ==
    << [throttle |-> 0, secs |-> 1],
       [throttle |-> 1200, secs |-> 1],
       [throttle |-> 1000, secs |-> 1] >>

BenchNothingSent == [kind |-> "none", values |-> <<>>]

BenchInit ==
    /\ benchPc = "loop"
    /\ benchBuf = <<0, 0, 0, 0, 0>>
    /\ benchLen = 0
    /\ benchRamp = FALSE
    /\ benchThrottle = 0
    /\ benchFromInput = FALSE
    /\ benchNow = 0
    /\ benchEnd = 0
    /\ benchPhase = 1
    /\ benchArmed = FALSE
    /\ benchPhases = <<>>
    /\ benchSent = BenchNothingSent

\* the end of one pass of the loop: the ramp program when ramp is set, then
\* `motors.send_throttles([throttle; 4])`
BenchSend(t, fromInput) ==
    IF benchRamp
    THEN /\ benchThrottle' = 0
         /\ benchFromInput' = FALSE
         /\ benchSent' = [kind |-> "ramp", values |-> Scripted(0)]
    ELSE /\ benchThrottle' = t
         /\ benchFromInput' = fromInput
         /\ benchSent' = [kind |-> IF fromInput THEN "input" ELSE "default",
                         values |-> Scripted(t)]

\* one pass of the loop of main: drain the serial input, match the buffer,
\* run the ramp program, send the throttle
BenchLoop ==
    /\ benchPc = "loop"
    /\ \E chunk \in Chunks :
        LET len == DrainLen(benchLen, chunk)
            b == DrainBuf(benchBuf, benchLen, chunk)
            m == MatchBuf(b, len)
        IN  /\ benchBuf' = b
            /\ IF len = 0
               THEN /\ benchLen' = len
                    /\ BenchSend(benchThrottle, benchFromInput)
                    /\ UNCHANGED <<benchPc, benchRamp, benchEnd, benchPhase, benchPhases>>
               ELSE IF m.arm = "RAMP"
               THEN /\ benchRamp' = ~benchRamp
                    /\ benchLen' = len
                    /\ UNCHANGED <<benchPc, benchThrottle, benchFromInput, benchEnd,
                                   benchPhase, benchPhases, benchSent>>
               ELSE IF m.arm = "ARM"
               THEN /\ benchRamp' = FALSE
                    /\ benchThrottle' = 0
                    /\ benchFromInput' = FALSE
                    /\ benchLen' = len
                    /\ benchPc' = "arm"
                    /\ benchPhase' = 1
                    /\ benchPhases' = <<>>
                    /\ benchEnd' = benchNow + ArmScript[1].secs
                    /\ UNCHANGED benchSent
               ELSE IF m.arm = "number"
               THEN /\ benchLen' = len
                    /\ BenchSend(ClampThrottle(m.value), TRUE)
                    /\ UNCHANGED <<benchPc, benchRamp, benchEnd, benchPhase, benchPhases>>
               ELSE IF m.arm = "discard"
               THEN /\ benchLen' = 0
                    /\ UNCHANGED <<benchPc, benchRamp, benchThrottle, benchFromInput,
                                   benchEnd, benchPhase, benchPhases, benchSent>>
               ELSE /\ benchLen' = len
                    /\ UNCHANGED <<benchPc, benchRamp, benchThrottle, benchFromInput,
                                   benchEnd, benchPhase, benchPhases, benchSent>>
    /\ UNCHANGED <<benchNow, benchArmed>>
    /\ UNCHANGED nonBenchVars

\* arm_oneshot of rmt.rs: `while Instant::now() <= end { send_throttles(..) }`
\* of the current phase, then the next phase or the return
BenchArm ==
    /\ benchPc = "arm"
    /\ IF benchNow <= benchEnd
       THEN /\ benchSent' = [kind |-> "arm",
                            values |-> Scripted(ArmScript[benchPhase].throttle)]
            /\ benchPhases' =
                   IF Len(benchPhases) = benchPhase THEN benchPhases
                   ELSE Append(benchPhases, Scripted(ArmScript[benchPhase].throttle))
            /\ UNCHANGED <<benchPc, benchPhase, benchEnd, benchArmed>>
       ELSE IF benchPhase < Len(ArmScript)
       THEN /\ benchPhase' = benchPhase + 1
            /\ benchEnd' = benchNow + ArmScript[benchPhase + 1].secs
            /\ UNCHANGED <<benchPc, benchArmed, benchPhases, benchSent>>
       ELSE /\ benchArmed' = TRUE
            /\ benchPc' = "loop"
            /\ UNCHANGED <<benchPhase, benchEnd, benchPhases, benchSent>>
    /\ UNCHANGED <<benchBuf, benchLen, benchRamp, benchThrottle, benchFromInput, benchNow>>
    /\ UNCHANGED nonBenchVars

\* the clock advances
BenchTick ==
    /\ benchNow < MaxBenchTime
    /\ benchNow' = benchNow + 1
    /\ UNCHANGED <<benchPc, benchBuf, benchLen, benchRamp, benchThrottle, benchFromInput,
                   benchEnd, benchPhase, benchArmed, benchPhases, benchSent>>
    /\ UNCHANGED nonBenchVars

InitAll == LsmInit /\ BmiInit /\ DroneInit /\ CfgStartOf("BMI323") /\ MixIdle /\ DShotIdle /\ BenchInit
           /\ OneShotIdle /\ EscIdle /\ RdIdle /\ FusIdle /\ FrameIdle /\ QueueIdle

NextFifo == LsmPoll
SpecFifo == InitAll /\ [][NextFifo]_vars

NextClean == LsmPollClean
SpecClean == InitAll /\ [][NextClean]_vars

NextBmi == BmiPoll
SpecBmi == InitAll /\ [][NextBmi]_vars

NextDrone ==
    \/ MainConfigure
    \/ MainLogError
    \/ MainPanic
    \/ CustomHalt
    \/ MainSpawn
    \/ MainArmStart
    \/ MainArmLoop
    \/ MainFlightInit
    \/ MainReceive
    \/ MainReceiveDone
    \/ MainSendThrottles
    \/ MainCommand
    \/ ImuSend
    \/ ImuSendDone
    \/ Tick
SpecDrone == InitAll /\ [][NextDrone]_vars

\* main and its timers run on; a sample arrives only when the IMU raises its
\* interrupt, and a request only when the remote sends one
MainTask ==
    \/ MainConfigure
    \/ MainLogError
    \/ MainPanic
    \/ CustomHalt
    \/ MainSpawn
    \/ MainArmStart
    \/ MainArmLoop
    \/ MainFlightInit
    \/ MainReceive
    \/ MainReceiveDone
    \/ MainSendThrottles
    \/ MainCommand
\* the IMU raises its interrupt for the first samples only
MaxRemoteSamples == 2
ImuSendFew == produced < MaxRemoteSamples /\ ImuSend
InitRemote == LsmInit /\ BmiInit /\ RemoteInit /\ CfgStartOf("BMI323") /\ MixIdle /\ DShotIdle
              /\ BenchInit /\ OneShotIdle /\ EscIdle /\ RdIdle /\ FusIdle /\ FrameIdle /\ QueueIdle
NextRemote ==
    \/ MainTask
    \/ ImuSendFew
    \/ ImuSendDone
    \/ Tick
    \/ RemoteSend
SpecRemote ==
    InitRemote /\ [][NextRemote]_vars /\ WF_vars(MainTask) /\ WF_vars(ImuSendDone)
        /\ WF_vars(Tick)

InitConfigure == LsmInit /\ BmiInit /\ DroneInit /\ CfgInit /\ MixIdle /\ DShotIdle /\ BenchInit
           /\ OneShotIdle /\ EscIdle /\ RdIdle /\ FusIdle /\ FrameIdle /\ QueueIdle
NextConfigure ==
    \/ CfgRead
    \/ CfgChipId
    \/ CfgWrite
    \/ CfgPowerUp
    \/ CfgCheckError
    \/ CfgWriteVerify
    \/ CfgWaitReady
    \/ CfgSelfTest
    \/ CfgCalibration
    \/ LsmWhoAmI
    \/ LsmResetWait
    \/ CfgDone
    \/ CfgTick
SpecConfigure == InitConfigure /\ [][NextConfigure]_vars

\* configure() runs on and its clock advances
CfgStep ==
    \/ CfgRead
    \/ CfgChipId
    \/ CfgWrite
    \/ CfgPowerUp
    \/ CfgCheckError
    \/ CfgWriteVerify
    \/ CfgWaitReady
    \/ CfgSelfTest
    \/ CfgCalibration
    \/ LsmWhoAmI
    \/ LsmResetWait
    \/ CfgDone
CfgClock ==
    \/ CfgTick
    \/ CfgTickLate
NextConfigureTimed ==
    \/ CfgStep
    \/ CfgClock
SpecConfigureTimed ==
    InitConfigure /\ [][NextConfigureTimed]_vars /\ WF_vars(CfgStep) /\ WF_vars(CfgClock)

InitMixer == LsmInit /\ BmiInit /\ DroneInit /\ CfgStartOf("BMI323") /\ MixInit /\ DShotIdle /\ BenchInit
           /\ OneShotIdle /\ EscIdle /\ RdIdle /\ FusIdle /\ FrameIdle /\ QueueIdle
NextMixer == MixerApply
SpecMixer == InitMixer /\ [][NextMixer]_vars

InitDShot == LsmInit /\ BmiInit /\ DroneInit /\ CfgStartOf("BMI323") /\ MixIdle /\ DShotInit /\ BenchInit
           /\ OneShotIdle /\ EscIdle /\ RdIdle /\ FusIdle /\ FrameIdle /\ QueueIdle
NextDShot == DShotEncode
SpecDShot == InitDShot /\ [][NextDShot]_vars

NextBench ==
    \/ BenchLoop
    \/ BenchArm
    \/ BenchTick
SpecBench == InitAll /\ [][NextBench]_vars

InitOneShot == LsmInit /\ BmiInit /\ DroneInit /\ CfgStartOf("BMI323") /\ MixIdle /\ DShotIdle
               /\ BenchInit /\ OneShotInit /\ EscIdle /\ RdIdle /\ FusIdle /\ FrameIdle /\ QueueIdle
NextOneShot == OneShotEncode
SpecOneShot == InitOneShot /\ [][NextOneShot]_vars

InitMotors == LsmInit /\ BmiInit /\ DroneInit /\ CfgStartOf("BMI323") /\ MixIdle /\ DShotIdle
              /\ BenchInit /\ OneShotIdle /\ EscInit /\ RdIdle /\ FusIdle /\ FrameIdle /\ QueueIdle
NextMotors ==
    \/ EscSendThrottles
    \/ EscArmStart
    \/ EscArmLoop
    \/ EscTick
SpecMotors == InitMotors /\ [][NextMotors]_vars

InitReader == LsmInit /\ BmiInit /\ DroneInit /\ CfgStartOf("BMI323") /\ MixIdle /\ DShotIdle
              /\ BenchInit /\ OneShotIdle /\ EscIdle /\ RdInit /\ FusIdle /\ FrameIdle /\ QueueIdle
NextReader ==
    \/ RdWake
    \/ RdStatusError
    \/ RdEmpty
    \/ RdLsmReadError
    \/ RdLsmPoll
    \/ RdBmiReadError
    \/ RdBmiPoll
SpecReader == InitReader /\ [][NextReader]_vars

InitFusion == LsmInit /\ BmiInit /\ DroneInit /\ CfgStartOf("BMI323") /\ MixIdle /\ DShotIdle
              /\ BenchInit /\ OneShotIdle /\ EscIdle /\ RdIdle /\ FusInit /\ FrameIdle /\ QueueIdle
NextFusion ==
    \/ FusAdvance
    \/ FusSetTarget
SpecFusion == InitFusion /\ [][NextFusion]_vars

InitFrame == LsmInit /\ BmiInit /\ DroneInit /\ CfgStartOf("BMI323") /\ MixIdle /\ DShotIdle
             /\ BenchInit /\ OneShotIdle /\ EscIdle /\ RdIdle /\ FusIdle /\ FrameInit
             /\ QueueIdle
NextFrame == FrameRoundTrip
SpecFrame == InitFrame /\ [][NextFrame]_vars

InitQueue == LsmInit /\ BmiInit /\ DroneInit /\ CfgStartOf("BMI323") /\ MixIdle /\ DShotIdle
             /\ BenchInit /\ OneShotIdle /\ EscIdle /\ RdIdle /\ FusIdle /\ FrameIdle
             /\ QueueInit
NextQueue == ReadQueue
SpecQueue == InitQueue /\ [][NextQueue]_vars

InitStream == LsmInit /\ BmiInit /\ DroneInit /\ CfgStartOf("BMI323") /\ MixIdle /\ DShotIdle
              /\ BenchInit /\ OneShotIdle /\ EscIdle /\ RdIdle /\ FusIdle /\ DecInit
              /\ QueueIdle
NextStream ==
    \/ DecReceive
    \/ DecNext
SpecStream == InitStream /\ [][NextStream]_vars

(***************************************************************************)
(* Claims about the LSM6DS3 reader (checked under SpecFifo)                *)
(***************************************************************************)
AllTagged(out, tag) == \A i \in 1..Len(out) : out[i].tag = tag

\* the 9 words of one hardware sample, from its word 0 on
Aligned(w) ==
    /\ w[1] >= 0
    /\ w[1] % PATTERNS = 0
    /\ \A j \in 1..PATTERNS : w[j] = w[1] + (j - 1)

\* C1: a poll whose status reports over_run, or whose leftover_len / 2
\* differs from the reported pattern, sends every sample as Lagged.
C1_LagTagsAll ==
    (lastPoll.over_run \/ (lastPoll.leftover \div 2) # lastPoll.pattern)
        => AllTagged(pollOut, "Lagged")

\* a desynchronised poll without the over_run flag that sent a sample
C1_Witness ==
    /\ ~lastPoll.over_run
    /\ (lastPoll.leftover \div 2) # lastPoll.pattern
    /\ Len(pollOut) >= 1

\* C2: every sample sent as Ok is the 9 consecutive words of one hardware
\* sample, starting at its word 0.
C2_OkIsAligned ==
    \A i \in 1..Len(pollOut) : pollOut[i].tag = "Ok" => Aligned(pollOut[i].words)

\* C3: over two polls without overrun, the k words kept from the first poll
\* are followed by the newly read words: the first sample of the second poll
\* is the k retained words and then the first 9 - k words of the read.
C3_LeftoverPrefixed ==
    LET k == Len(lastPoll.retained) IN
    (/\ pollCount >= 2
     /\ ~lastPoll.over_run
     /\ ~lastPoll.prev_over_run
     /\ k > 0
     /\ Len(pollOut) >= 1)
        => pollOut[1].words = lastPoll.retained \o SubSeq(lastPoll.read, 1, PATTERNS - k)

\* C4: a poll that detects lag starts decoding at word 0 of the next whole
\* sample (its cursor skips the PATTERNS - pattern words of the partial one).
C4_LagStartsAtSample ==
    (lastPoll.lag # -1 /\ Len(pollOut) >= 1)
        => (pollOut[1].words[1] >= 0 /\ pollOut[1].words[1] % PATTERNS = 0)

\* C5 (checked under SpecClean): on a clean stream (no overrun, start at
\* pattern 0 without leftover, the FIFO advances by the words read) every
\* sample of every poll is Ok.
C5_CleanAllOk == clean => AllTagged(pollOut, "Ok")

(***************************************************************************)
(* Claims about the BMI323 reader (checked under SpecBmi)                  *)
(***************************************************************************)
\* C6: when the FIFO was full, or the words of a poll do not start at a
\* sample boundary, the samples of that poll carry a lag marker.
C6_BmiLagMarked ==
    (bmiLast.fifo_full \/ bmiLast.start % WORDS_PER_SAMPLE # 0)
        => AllTagged(bmiOut, "Lagged")

(***************************************************************************)
(* Claims about the sample channel and the boot sequence (SpecDrone)       *)
(***************************************************************************)
\* samples published by send_done and not yet released by receive_done
Outstanding == nSendDone - nReceiveDone

\* C7: the control loop reads the samples in exactly the order in which the
\* IMU task sent them: what was received is a prefix of what was sent.
C7_ReceivedInOrder ==
    /\ Len(recvLog) <= Len(sentLog)
    /\ \A i \in 1..Len(recvLog) : recvLog[i] = sentLog[i]

\* the ring has wrapped around and the consumer has read past the wrap
C7_Witness == Len(recvLog) > CHANNEL_SIZE

\* C8 (as stated): at most one sample is sent and not yet marked consumed.
C8_AtMostOneOutstanding == Outstanding <= 1

\* C8 (amended): at most CHANNEL_SIZE samples are sent and not yet marked
\* consumed, so the producer is never more than CHANNEL_SIZE samples ahead.
C8_AtMostCapacityOutstanding == Outstanding <= CHANNEL_SIZE

\* the producer is a whole channel ahead of the consumer
C8_Witness == Outstanding = CHANNEL_SIZE /\ full

\* C9: the producer never writes a slot the consumer has not released (every
\* unreleased slot still holds the sample sent into it, and the slot being
\* written is free), and receive_done is called exactly once per received
\* sample, after the sample was read.
C9_NoSlotReuse ==
    /\ \A k \in 1..Outstanding :
            chanBuf[(front + k - 1) % CHANNEL_SIZE] = sentLog[nReceiveDone + k]
    /\ pcImu = "send_done" => ~full
    /\ nReceive - nReceiveDone = (IF pcMain = "receive_done" THEN 1 ELSE 0)
    /\ Len(recvLog) = nReceive
    /\ pcMain = "receive_done" => recvLog[nReceive] = chanBuf[front]

\* the producer is suspended in send() on a full channel that the consumer
\* has already released slots of, while the consumer holds a sample
C9_Witness ==
    /\ full
    /\ pcImu = "send"
    /\ nReceiveDone >= 1
    /\ pcMain = "receive_done"

\* C10: after imu.configure() returned an error, main never spawns the IMU
\* task, never arms the motors and never sends a throttle; it logs the error,
\* panics, and the panic handler resets.
C10_ConfigErrorNoFlight ==
    confResult \in ConfigErrors =>
        /\ pcMain \in {"log_error", "panic", "halt"}
        /\ ~imuSpawned
        /\ pcImu = "off"
        /\ ~armed
        /\ throttleKinds = {}
        /\ nReceive = 0
        /\ pcMain \in {"panic", "halt"} => errorLogged
        /\ pcMain = "halt" => panicked

\* a failed configuration has reached custom_halt
C10_Witness ==
    /\ confResult \in ConfigErrors
    /\ pcMain = "halt"
    /\ errorLogged
    /\ panicked

(***************************************************************************)
(* Claims about configure() (checked under SpecConfigure)                  *)
(***************************************************************************)
\* C11: when write_verify_register reads back a value that differs from the
\* value written, configure() has returned Err(Verification(Verification)):
\* it is not running, has not returned Ok, and the write of that call is the
\* last register write on the bus.
C11_VerificationFatal ==
    cfgEvent.what = "mismatch" =>
        /\ cfgResult = Res("Verification", "Verification", -1)
        /\ cfgWrites = cfgEvent.writes

\* a read-back mismatch in one of the operating registers of the BMI323
C11_Witness ==
    /\ chip = "BMI323"
    /\ cfgEvent.what = "mismatch"
    /\ cfgPc = 18
    /\ cfgResult.kind = "Verification"

\* C12: once a bus transaction of configure() has failed, configure() has
\* returned an error that wraps the bus error (Spi, or Verification carrying
\* Spi): it is not ignored, retried or turned into another kind of error.
C12_BusErrorWrapped ==
    cfgBusError =>
        \/ cfgResult.kind = "Spi"
        \/ (cfgResult.kind = "Verification" /\ cfgResult.inner = "Spi")

\* C13 (as stated): when the self-test (self-calibration) loop runs out of
\* time, configure() returns SelfTest (SelfCalibration) carrying the status
\* code read from FEATURE_IO1.
C13_TimeoutCarriesStatus ==
    (cfgEvent.what = "timeout" /\ cfgEvent.op \in {"self_test", "calibration"}) =>
        /\ cfgResult.kind = (IF cfgEvent.op = "self_test" THEN "SelfTest" ELSE "SelfCalibration")
        /\ cfgResult.code = LowBits(cfgEvent.raw, 4)

\* C13 (amended): when the self-test (self-calibration) reports completion
\* with a status other than 0x5, configure() returns SelfTest
\* (SelfCalibration) carrying the low four bits of FEATURE_IO1; when it does
\* not report completion and more than one whole second has passed since the
\* command, configure() returns Timeout.
C13_FailureCarriesStatus ==
    /\ (cfgEvent.what = "failed" /\ cfgEvent.op = "self_test") =>
            cfgResult = Res("SelfTest", "none", LowBits(cfgEvent.raw, 4))
    /\ (cfgEvent.what = "failed" /\ cfgEvent.op = "calibration") =>
            cfgResult = Res("SelfCalibration", "none", LowBits(cfgEvent.raw, 4))
    /\ (cfgEvent.what = "timeout" /\ cfgEvent.op \in {"self_test", "calibration"}) =>
            /\ cfgResult = ErrTimeout
            /\ AsSecs(cfgNow - cfgStart) > 1

\* the self-calibration never reported completion and ran out of time
C13_Witness ==
    /\ cfgEvent.what = "timeout"
    /\ cfgEvent.op = "calibration"
    /\ cfgResult = ErrTimeout

(***************************************************************************)
(* Claims about arming, the stabilisation window and the commands          *)
(* (checked under SpecDrone)                                               *)
(***************************************************************************)
\* C14: when arm_oneshot has returned, it has sent exactly three phases in
\* this order: zero throttle, the mid-range arm value, minimum throttle.
C14_ThreePhases ==
    armed => armSent = <<Scripted(0), Scripted(1200), Scripted(1000)>>

\* C15 (checked under SpecBench): a throttle that came from the serial input
\* (a number, or the ramp program it starts) is sent to the motors only after
\* arm_oneshot has completed.
C15_NoCommandBeforeArmed ==
    benchSent.kind \in {"input", "ramp"} => benchArmed

\* C16: up to the end of arming only the scripted arming array is sent; an
\* array sent by arm_oneshot or inside the stabilisation window is the
\* constant [1000; 4] whatever the demand of the cycle; mixer output is sent
\* only after arming and once motors_off_until has passed.
C16_ScriptedUntilWindowEnds ==
    /\ ~armed => throttleKinds \subseteq {"arm"}
    /\ lastSent.kind \in {"arm", "off"} => lastSent.values = Scripted(1000)
    /\ "mixed" \in throttleKinds =>
            /\ armed
            /\ pcMain # "flight_init"
            /\ now >= motorsOffUntil

\* inside the window a tilted demand was overridden by the scripted array
C16_Witness ==
    /\ lastSent.kind = "off"
    /\ lastSent.demand = <<Num(200), Num(-100), Num(50)>>
    /\ MappedMotorThrottles(lastSent.mixed) # Scripted(1000)
    /\ lastSent.values = Scripted(1000)

\* C19: after a SetThrust or SetTarget request was received the control loop
\* keeps running (it does not panic and reset).
C19_CommandsApplied ==
    request \in {"SetThrust", "SetTarget"} => pcMain \notin {"panic", "halt"}

(***************************************************************************)
(* Claims about the mixer (checked under SpecMixer)                        *)
(***************************************************************************)
InRange(x, lo, hi) == x.k = "num" /\ lo <= x.v /\ x.v <= hi

ZeroDemand == mixIn.roll = Num(0) /\ mixIn.pitch = Num(0) /\ mixIn.yaw = Num(0)

\* C17: for all thrust, roll, pitch and yaw, each of the four motor
\* throttles is a number within [0, 1000] after clamping (a NaN does not
\* come out of the clamp).
C17_MixedInRange ==
    mixOut # <<>> =>
        \A i \in 1..4 : InRange(mixOut.motor_throttles[i], 0, 1000)

BitOf(x, j) == (x \div (2 ^ j)) % 2

\* C20: for every value in 0..=2047 and every telemetry flag the packet has
\* data = value * 2 + telemetry in its upper 12 bits, and bit j of its lower
\* 4 bits is the parity of bits j, j + 4 and j + 8 of data.
C20_PacketLayout ==
    (dshotOut # <<>> /\ dshotIn.value <= 2047) =>
        LET data == dshotIn.value * 2 + (IF dshotIn.telemetry_request THEN 1 ELSE 0)
            packet == dshotOut.packet
        IN  /\ ~dshotOut.panic
            /\ packet < 65536
            /\ packet \div 16 = data
            /\ \A j \in 0..3 :
                   BitOf(packet, j) = (BitOf(data, j) + BitOf(data, j + 4) + BitOf(data, j + 8)) % 2

\* the largest value with the telemetry flag set
C20_Witness ==
    /\ dshotOut # <<>>
    /\ dshotIn.value = 2047
    /\ dshotIn.telemetry_request
    /\ dshotOut.packet = 65535

(***************************************************************************)
(* Claims about the pulse train of a DShot frame (checked under SpecDShot) *)
(***************************************************************************)
\* the bit a pulse code stands for (2 for a code that is neither)
PulseBit(code) ==
    IF code = <<ONE_HI, ONE_LO>> THEN 1
    ELSE IF code = <<ZERO_HI, ZERO_LO>> THEN 0
    ELSE 2

\* the 16-bit word read from the first 16 pulses, first pulse = highest bit
RECURSIVE DecodePulses(_, _)
DecodePulses(pulse, i) ==
    IF i > 16 THEN 0
    ELSE PulseBit(pulse[i]) * (2 ^ (16 - i)) + DecodePulses(pulse, i + 1)

\* C21: encode_frame yields 16 pulse codes and one end marker; pulse i
\* (i = 0..15) stands for bit 15 - i of the packet, (ONE_HI, ONE_LO) for 1 and
\* (ZERO_HI, ZERO_LO) for 0, so the pulses read in order give back the payload
\* (value and telemetry flag) and the checksum.
C21_PulsesDecode ==
    (dshotOut # <<>> /\ ~dshotOut.panic) =>
        LET pulse == dshotOut.pulse
            word == DecodePulses(pulse, 1)
            data == dshotIn.value * 2 + (IF dshotIn.telemetry_request THEN 1 ELSE 0)
        IN  /\ Len(pulse) = 17
            /\ pulse[17] = <<0, 0>>
            /\ \A i \in 0..15 :
                   /\ PulseBit(pulse[i + 1]) = BitOf(dshotOut.packet, 15 - i)
                   /\ pulse[i + 1] # <<0, 0>>
            /\ word = dshotOut.packet
            /\ word \div 16 = data
            /\ \A j \in 0..3 :
                   BitOf(word, j) = (BitOf(data, j) + BitOf(data, j + 4) + BitOf(data, j + 8)) % 2

\* value 1 without telemetry: packet 0x0022, so only pulses 10 and 14 are ones
C21_Witness ==
    /\ dshotOut # <<>>
    /\ dshotIn = [value |-> 1, telemetry_request |-> FALSE]
    /\ dshotOut.packet = 34
    /\ \A i \in 0..15 :
           dshotOut.pulse[i + 1] =
               IF i \in {10, 14} THEN <<ONE_HI, ONE_LO>> ELSE <<ZERO_HI, ZERO_LO>>

(***************************************************************************)
(* Claims about the motor driver (checked under SpecMotors, SpecOneShot)   *)
(***************************************************************************)
\* the values the last send_esc_values call has encoded
EncodedValues == {escLast.sends[k].value : k \in 1..Len(escLast.sends)}

\* C22 as stated: every value the DShot driver encodes, through send_throttles
\* or in the arm_dshot script, lies in 48..=2047.
C22_AllEncodedClamped ==
    escProto = "DShot" => \A v \in EncodedValues : v >= 48 /\ v <= 2047

\* C22 amended: a value encoded through send_throttles (also by the last
\* phase of arm_dshot) is throttle.clamp(1, 1999) + 48, in 49..=2047; the
\* first two phases of arm_dshot encode the raw values 0 and 48; no value
\* above 2047 is encoded and encode_frame never panics.
C22_ThrottlesClamped ==
    (escProto = "DShot" /\ escLast.path # "none") =>
        /\ ~escPanic
        /\ \A v \in EncodedValues : v <= 2047
        /\ IF escLast.throttles # <<>>
           THEN \A k \in 1..Len(escLast.sends) :
                    LET t == escLast.throttles[k]
                        v == escLast.sends[k].value
                    IN  /\ v >= 49
                        /\ v = (IF t < 1 THEN 1 ELSE IF t > 1999 THEN 1999 ELSE t) + 48
           ELSE /\ escLast.path = "arm_dshot"
                /\ EncodedValues \in {{0}, {48}}

\* send_throttles with throttles below, inside and above the range
C22_Witness ==
    /\ escProto = "DShot"
    /\ escLast.path = "send_throttles"
    /\ escLast.throttles = <<0, 47, 2000, U16_MAX>>
    /\ escLast.values = <<49, 95, 2047, 2047>>
    /\ Len(escLast.sends) = 4

\* C23: for every u16 throttle the OneShot value is min(throttle / 2, 1000)
\* + 1000, lies in 1000..=2000 and does not decrease when the throttle grows;
\* the pulses are one high pulse of that many ticks with a low period of
\* length 0, then the end marker.
C23_OneShotPulse ==
    oneshotOut # <<>> =>
        LET t == oneshotIn
            v == oneshotOut.value
        IN  /\ v >= 1000 /\ v <= 2000
            /\ IF t >= 2000 THEN v = 2000
               ELSE 2 * (v - 1000) <= t /\ t <= 2 * (v - 1000) + 1
            /\ t < U16_MAX => v <= OneShotTransform(t + 1)
            /\ Len(oneshotOut.pulse) = 2
            /\ oneshotOut.pulse[1] = <<v, 0>>
            /\ oneshotOut.pulse[2] = <<0, 0>>

\* the largest throttle is capped at 2000
C23_Witness ==
    /\ oneshotOut # <<>>
    /\ oneshotIn = U16_MAX
    /\ oneshotOut.value = 2000
    /\ oneshotOut.pulse = << <<2000, 0>>, <<0, 0>> >>

\* C24: when the transmit of one motor's pulse fails, the error is logged,
\* the later motors of the same send_esc_values call are still transmitted,
\* each motor exactly once (no retry), and the call returns without a panic.
C24_FailedSendSkipsNothing ==
    (escLast.path # "none" /\ \E k \in 1..Len(escLast.sends) : ~escLast.sends[k].ok) =>
        /\ Len(escLast.sends) = 4
        /\ \A k \in 1..4 :
               /\ escLast.sends[k].motor = k
               /\ escLast.sends[k].value = escLast.values[k]
               /\ escLast.sends[k].transmitted
        /\ escLast.logged = Cardinality({k \in 1..4 : ~escLast.sends[k].ok})
        /\ escLast.returned
        /\ ~escPanic

\* the second motor's transmit fails, the third and fourth succeed
C24_Witness ==
    /\ escLast.path = "send_throttles"
    /\ Len(escLast.sends) = 4
    /\ ~escLast.sends[2].ok
    /\ escLast.sends[1].ok /\ escLast.sends[3].ok /\ escLast.sends[4].ok
    /\ escLast.sends[3].transmitted /\ escLast.sends[4].transmitted
    /\ escLast.logged = 1
    /\ escPc = "idle"

(***************************************************************************)
(* Claims about bus errors in read_imu_task (checked under SpecReader)     *)
(***************************************************************************)
\* the samples the last pass of the loop of the running driver has sent
RdSent == IF rdChip = "LSM6DS3" THEN pollOut ELSE bmiOut
\* the words of one sample of the running driver
RdSampleWords == IF rdChip = "LSM6DS3" THEN PATTERNS ELSE WORDS_PER_SAMPLE

\* C25: a pass of the poll loop in which fifo_status or read_fifo fails sends
\* no sample and leaves the task waiting for the data-ready interrupt; a
\* later pass whose transactions succeed sends the samples it has read.
C25_BusErrorEndsPoll ==
    /\ rdLast.outcome \in {"status_err", "read_err"} =>
           /\ rdPc = "wait"
           /\ RdSent = <<>>
    /\ (rdErrors > 0 /\ rdLast.outcome = "ok") =>
           /\ rdPc = "loop"
           /\ Len(RdSent) = rdLast.words \div RdSampleWords

\* the LSM6DS3 read fails with the FIFO advanced, the task waits, wakes and
\* the next pass sends a sample
C25_Witness ==
    /\ rdChip = "LSM6DS3"
    /\ rdErrors > 0
    /\ hwPos > rdLast.words
    /\ rdLast.outcome = "ok"
    /\ Len(pollOut) >= 1

(***************************************************************************)
(* Claims about the commands of the control loop (checked under SpecDrone) *)
(***************************************************************************)
\* C26: in each cycle of the control loop at most one request is taken from
\* the inbound channel, by one try_receive, and at most one response is sent;
\* a Ping taken in the cycle is answered by exactly one Pong and nothing is
\* sent when no Ping was taken.
C26_OneCommandPerCycle ==
    /\ Len(cycle.taken) <= 1
    /\ Len(cycle.responses) <= 1
    /\ cycle.taken = (IF request = "None" THEN <<>> ELSE <<request>>)
    /\ cycle.responses = (IF request = "Ping" THEN <<"Pong">> ELSE <<>>)
    /\ pcMain \in {"receive_done", "send_throttles", "command"} => cycle = NoCycle

\* a Ping was taken and answered, and the next cycle is about to start
C26_Witness ==
    /\ pcMain = "receive"
    /\ nReceive > 0
    /\ cycle.taken = <<"Ping">>
    /\ cycle.responses = <<"Pong">>


\* the errors one controller was given are all finite
FiniteErrors(i) == \A n \in 1..Len(errLog) : errLog[n][i].k = "num"

\* the sum of the first n errors one controller was given
RECURSIVE SumOfErrors(_, _)
SumOfErrors(i, n) == IF n = 0 THEN 0 ELSE SumOfErrors(i, n - 1) + errLog[n][i].v

\* C27: Pid::advance(error) returns k_p * error + k_i * S + k_d * (previous_error -
\* error), S being the sum of all errors so far with the current one and
\* previous_error the error of the call before (0 on the first call); after the
\* call sum is S and last_input is error.
C27_PidOutput ==
    \A i \in 1..3 :
        (Len(errLog) > 0 /\ FiniteErrors(i)) =>
            LET n == Len(errLog)
                pid == fusion.pid[i]
                error == errLog[n][i].v
                previous_error == IF n = 1 THEN 0 ELSE errLog[n - 1][i].v
                S == SumOfErrors(i, n)
            IN  /\ fusLast.control[i] =
                       Num(pid.k_p * error + pid.k_i * S + pid.k_d * (previous_error - error))
                /\ pid.sum = Num(S)
                /\ pid.last_input = Num(error)

\* C27 happens: a controller with all three gains has had different non-zero
\* errors in MaxFusionCalls calls, so that S, previous_error and error differ
C27_Witness ==
    /\ Len(errLog) = MaxFusionCalls
    /\ \E i \in 1..3 :
        LET pid == fusion.pid[i]
            n == Len(errLog)
        IN  /\ FiniteErrors(i)
            /\ pid.k_i # 0 /\ pid.k_d # 0
            /\ errLog[n][i].v # 0
            /\ errLog[n - 1][i].v # 0
            /\ errLog[n][i].v # errLog[n - 1][i].v
            /\ SumOfErrors(i, n) # errLog[n][i].v
            /\ fusLast.control[i].k = "num"


\* the controller `new` made, given the first n errors of the log in turn
RECURSIVE PidAfter(_, _)
PidAfter(i, n) ==
    IF n = 0
    THEN NewPid(fusion.pid[i].k_p, fusion.pid[i].k_i, fusion.pid[i].k_d)
    ELSE PidAdvance(PidAfter(i, n - 1), errLog[n][i]).pid

\* every error one controller was given is 1
UnitErrors(i) == \A n \in 1..Len(errLog) : errLog[n][i] = Num(FusUnit)

\* C28: after N calls of Pid::advance with error 1 on a new controller sum is N;
\* a controller is what its gains and the sequence of its errors make it, and no
\* operation but a call of advance changes sum or last_input: set_target leaves
\* the three controllers as they are.
C28_SumNeverReset ==
    /\ [](\A i \in 1..3 :
            /\ fusion.pid[i] = PidAfter(i, Len(errLog))
            /\ UnitErrors(i) => fusion.pid[i].sum = Num(Len(errLog) * FusUnit))
    /\ [][fusCalls' = fusCalls => fusion'.pid = fusion.pid]_vars

\* C28 happens: MaxFusionCalls calls with error 1 on the yaw controller, then a
\* set_target that moves the target
C28_Witness ==
    /\ Len(errLog) = MaxFusionCalls
    /\ UnitErrors(3)
    /\ fusion.pid[3].sum = Num(MaxFusionCalls * FusUnit)
    /\ fusLast.op = "set_target"
    /\ fusion.target[3] # Num(FusUnit)


\* the last sample was taken at rest: no rotation, time has passed, and the
\* orientation before the call was finite
AtRest(accel) ==
    /\ fusCalls > 0
    /\ fusLast.sample.gyro = <<0, 0, 0>>
    /\ fusLast.sample.accel = accel
    /\ fusLast.sample.dt > 0
    /\ \A i \in 1..3 : fusLast.before[i].k = "num"

\* the distance of an angle from a whole number of scaled degrees
AngleDistance(a, limit) == IF a.v >= limit THEN a.v - limit ELSE limit - a.v

\* C29 as stated: with zero gyro rate and the accelerometer reading [0, 0, 1g] a
\* call of advance brings roll and pitch no further from 0 and leaves yaw as it
\* was.
C29_LevelConverges ==
    AtRest(<<0, 0, 1>>) =>
        /\ fusion.orientation[1].k = "num"
        /\ fusion.orientation[2].k = "num"
        /\ AngleDistance(fusion.orientation[1], 0) <= AngleDistance(fusLast.before[1], 0)
        /\ AngleDistance(fusion.orientation[2], 0) <= AngleDistance(fusLast.before[2], 0)
        /\ fusion.orientation[3] = fusLast.before[3]

\* the angle roll tends to at rest: IMU_AXIS_SCALE turns the reading [0, 0, -1g]
\* into gravity along +z, and the reading [0, 0, 1g] into gravity along -z
RestRoll(accel) == IF accel = <<0, 0, -1>> THEN 0 ELSE -180 * FusUnit

\* C29, amended: with zero gyro rate every call of advance leaves yaw exactly as
\* it was; with the reading [0, 0, -1g] it multiplies roll and pitch by alpha, so
\* that both converge to 0; with the reading [0, 0, 1g] it multiplies pitch and
\* the distance of roll from -180 degrees by alpha, so that pitch converges to 0
\* and roll to -180 degrees.
C29_RestConverges ==
    /\ \A accel \in {s.accel : s \in Samples} :
        AtRest(accel) => fusion.orientation[3] = fusLast.before[3]
    /\ \A accel \in {<<0, 0, -1>>, <<0, 0, 1>>} :
        AtRest(accel) =>
            /\ fusion.orientation[1].k = "num"
            /\ fusion.orientation[2].k = "num"
            /\ fusion.alpha.den * AngleDistance(fusion.orientation[1], RestRoll(accel))
                   = fusion.alpha.num * AngleDistance(fusLast.before[1], RestRoll(accel))
            /\ fusion.alpha.den * AngleDistance(fusion.orientation[2], 0)
                   = fusion.alpha.num * AngleDistance(fusLast.before[2], 0)

\* C29 happens: MaxFusionCalls calls, the last one at rest with the reading
\* [0, 0, -1g] from a tilted orientation with a yaw that is not 0; roll and pitch
\* have come closer to 0
C29_Witness ==
    /\ fusCalls = MaxFusionCalls
    /\ AtRest(<<0, 0, -1>>)
    /\ fusLast.before[1].v # 0
    /\ fusLast.before[2].v # 0
    /\ fusion.orientation[3].v # 0
    /\ AngleDistance(fusion.orientation[1], 0) < AngleDistance(fusLast.before[1], 0)
    /\ AngleDistance(fusion.orientation[2], 0) < AngleDistance(fusLast.before[2], 0)


\* C30: advance guards an accelerometer vector of norm zero (a sample with dt = 0
\* included): after such a call from a finite orientation the stored
\* orientation and the returned controls are numbers.
C30_ZeroNormGuarded ==
    (/\ fusCalls > 0
     /\ GravityNorm(Gravity(fusLast.sample)) = Num(0)
     /\ \A i \in 1..3 : fusLast.before[i].k = "num") =>
        \A i \in 1..3 :
            /\ fusion.orientation[i].k = "num"
            /\ fusLast.control[i].k = "num"


\* C31: unescaped(escaped(d)) is Ok(d) for every byte sequence d, and
\* Frame::decode(Frame::encode(v)) is Ok(v) for every message v, whatever START
\* and END bytes they hold.
C31_RoundTrip ==
    frameOut # <<>> =>
        /\ frameOut[1].unescaped.ok
        /\ frameOut[1].unescaped.v = frameIn.data
        /\ frameIn.data \in Messages =>
              (frameOut[1].decoded.ok /\ frameOut[1].decoded.v = frameIn.data)

\* C31 happens: the round trip of a message that starts with START and ends
\* with END
C31_Witness ==
    /\ frameOut # <<>>
    /\ frameIn.data \in Messages
    /\ Head(frameIn.data) = FRAME_START
    /\ frameIn.data[Len(frameIn.data)] = FRAME_END
    /\ Len(frameOut[1].escaped) = 2 * PayloadLen + 2
    /\ frameOut[1].decoded.ok


\* s is the beginning of t
IsPrefix(s, t) == Len(s) <= Len(t) /\ s = SubSeq(t, 1, Len(s))

\* C32: when the frames of a sequence of messages, after nothing or after the
\* end of a cut frame, are fed to the decoder, next returns the messages of the
\* whole frames in order: never a message that was not sent, and all of them
\* once everything has arrived and next has returned None.
C32_StreamDecodesAll ==
    decFrames =>
        /\ IsPrefix(decOut, decSent)
        /\ (decPending = <<>> /\ decLast.op = "next" /\ ~decLast.some) => decOut = decSent


\* C40: len never exceeds the length of the buffer, and a next that returns
\* None on a full buffer has discarded bytes, so that receive has room again.
C40_NeverStuck ==
    /\ Len(decBuf) <= BUFFER_LEN
    /\ (decLast.op = "next" /\ ~decLast.some /\ decLast.full) => decLast.discarded > 0


\* C33: in the flight loop a waiting Ping is answered with a Pong in the end,
\* also when no sample arrives from the IMU any more.
C33_PingAnswered ==
    (pcMain = "receive" /\ remotePending = "Ping") ~> (response = "Pong")


\* step k of the log wrote, or tried to write, the register with the value
CfgWrote(k, reg, val) ==
    /\ Plan[cfgLog[k].step].op \in {"write", "write_verify"}
    /\ Plan[cfgLog[k].step].reg = reg
    /\ Plan[cfgLog[k].step].val = val

\* step j of the log passed: no bus error, mismatch, failure or timeout, and
\* configure() went on
CfgPassed(j) ==
    cfgLog[j].done /\ cfgLog[j].what \in {"read", "write", "verified", "complete"}

\* a step of the kind op was taken and passed before step k of the log
CfgPassedBefore(k, op) ==
    \E j \in 1..(k - 1) : Plan[cfgLog[j].step].op = op /\ CfgPassed(j)

\* configure() takes the steps of its plan one after the other and none after
\* a step that failed; the chip ID is verified before the soft reset is written,
\* and the power-up wait has ended before the self-test is started
CfgOrdered ==
    /\ \A k \in 1..Len(cfgLog) :
        /\ cfgLog[k].step = k
        /\ k < Len(cfgLog) => CfgPassed(k)
    /\ chip = "BMI323" =>
        \A k \in 1..Len(cfgLog) :
            /\ CfgWrote(k, "CMD", 57007) => CfgPassedBefore(k, "chip_id")
            /\ (CfgWrote(k, "CMD", 256) \/ CfgWrote(k, "CMD", 257)) =>
                  CfgPassedBefore(k, "power_up")

\* the registers written before step k of the log could be written only after
\* self-test and calibration
CfgAfterTests(k) == CfgPassedBefore(k, "self_test") /\ CfgPassedBefore(k, "calibration")

\* C34 as stated: configure() keeps the order of its steps and stops at the
\* first failure, and FIFO_WATERMARK, FIFO_CONF, IO_INT_CTRL, INT_MAP2, ACC_CONF
\* and GYR_CONF are not written before self-test and calibration have passed.
C34_NoEarlyRegisterWrite ==
    /\ CfgOrdered
    /\ chip = "BMI323" =>
        \A k \in 1..Len(cfgLog) :
            (/\ Plan[cfgLog[k].step].op \in {"write", "write_verify"}
             /\ Plan[cfgLog[k].step].reg \in {"FIFO_WATERMARK", "FIFO_CONF", "IO_INT_CTRL",
                                              "INT_MAP2", "ACC_CONF", "GYR_CONF"})
                => CfgAfterTests(k)

\* C34, amended: configure() keeps the order of its steps and stops at the
\* first failure; FIFO_WATERMARK, FIFO_CONF, IO_INT_CTRL and INT_MAP2, and the
\* operating values of ACC_CONF and GYR_CONF, are not written before self-test
\* and calibration have passed; ACC_CONF and GYR_CONF are written once before,
\* with the values of the self-test, after the power-up wait and the error check.
C34_OperatingValuesAfterTests ==
    /\ CfgOrdered
    /\ chip = "BMI323" =>
        \A k \in 1..Len(cfgLog) :
            /\ (/\ Plan[cfgLog[k].step].op \in {"write", "write_verify"}
                /\ Plan[cfgLog[k].step].reg \in {"FIFO_WATERMARK", "FIFO_CONF", "IO_INT_CTRL",
                                                 "INT_MAP2"})
                   => CfgAfterTests(k)
            /\ (CfgWrote(k, "ACC_CONF", 28715) \/ CfgWrote(k, "GYR_CONF", 28747))
                   => CfgAfterTests(k)
            /\ (CfgWrote(k, "ACC_CONF", 28681) \/ CfgWrote(k, "GYR_CONF", 28681))
                   => (/\ CfgPassedBefore(k, "power_up")
                       /\ CfgPassedBefore(k, "error")
                       /\ ~CfgPassedBefore(k, "self_test"))

\* C34 happens: the BMI323 is configured to the end, with every register written
C34_Witness ==
    /\ chip = "BMI323"
    /\ cfgResult = CfgOk
    /\ Len(cfgLog) = Len(BmiPlan)
    /\ \E k \in 1..Len(cfgLog) : CfgWrote(k, "GYR_CONF", 28747) /\ CfgPassed(k)


\* C39: configure() of the BMI323 returns in the end, by success, by an error
\* or by a timeout, whatever the registers read, as long as the clock advances.
C39_ConfigureReturns ==
    (chip = "BMI323") => <>(cfgResult # Running)


\* the two select lines that address motor k (k = 1..4): mux_slct[0] holds the
\* high bit and mux_slct[1] the low bit of k - 1
MuxAddress(k) == <<(k - 1) \div 2, (k - 1) % 2>>

\* C35: a call of send_esc_values transmits its values one at a time in the
\* order 0, 1, 2, 3, and while value i is transmitted the select lines hold the
\* address of motor i: 00, 01, 10, 11, one for each motor.
C35_MuxAddressesMotor ==
    \A k \in 1..Len(escLast.sends) :
        /\ escLast.sends[k].motor = k
        /\ escLast.sends[k].value = escLast.values[k]
        /\ escLast.sends[k].mux = MuxAddress(k)
        /\ \A j \in 1..(k - 1) : escLast.sends[j].mux # escLast.sends[k].mux

\* C35 happens: a call that sends to all four motors, the fourth with both
\* select lines high
C35_Witness ==
    /\ Len(escLast.sends) = 4
    /\ escLast.sends[4].mux = <<1, 1>>
    /\ escLast.sends[4].transmitted
    /\ escMux = <<1, 1>>


\* C36: every throttle the loop hands to send_throttles lies in 0..=2000,
\* for all demands and for every motor: a motor that is not reversed gets
\* 1000 plus its clamped throttle, a reversed motor 1000 minus it (a NaN
\* throttle is cast to 0).
C36_ThrottlesInDomain ==
    mixOut # <<>> =>
        \A i \in 1..4 :
            LET m == mixOut.mapped_motor_throttles[i]
                t == mixOut.motor_throttles[i]
            IN  /\ m \in 0..2000
                /\ t # NaN => m = (IF MOTOR_REV[i] THEN 1000 - t.v ELSE 1000 + t.v)

\* C36 happens: demands beyond the clamp, which drive a motor that is not
\* reversed to 2000 and the reversed motor to 0
C36_Witness ==
    /\ mixOut # <<>>
    /\ mixIn.thrust = Num(3000)
    /\ mixOut.motor_throttles[4] = Num(1000)
    /\ mixOut.mapped_motor_throttles[1] = 2000
    /\ mixOut.mapped_motor_throttles[4] = 0


\* C37: for every pattern below 9 and every unread word count from 1 to
\* 4095 the end index of the FIFO read is even and at most the buffer length,
\* so the slice buf[..end] is within the buffer and buf[0..end] chunks into
\* words without a rest; the new leftover_len is even and below 18.
C37_ReadWithinBuffer ==
    queueOut # <<>> =>
        /\ queueOut.end % 2 = 0
        /\ queueOut.end <= BUF_LEN
        /\ queueOut.end >= 0
        /\ queueOut.chunk_leftover = 0
        /\ queueOut.leftover_len % 2 = 0
        /\ queueOut.leftover_len >= 0
        /\ queueOut.leftover_len < 18

\* C37 happens: the status reports more words than the buffer can take
\* behind a pattern of 8, and the read ends at the end of the buffer
C37_Witness ==
    /\ queueOut # <<>>
    /\ queueIn.pattern = 8
    /\ queueIn.unread_words = UNREAD_WORDS_MAX
    /\ queueOut.end = BUF_LEN
    /\ queueOut.leftover_len > 0


\* the words the read of a poll took from the FIFO: the words of buf[..end]
\* behind the pattern
WordsRead(poll) == (poll.end \div BYTES_PER_WORD) - poll.pattern

====
